---- MODULE Spec2Model ----
(***************************************************************************)
(* A model of the NomMix simulator of logos-co/nomos-simulations:         *)
(*   - the temporal-mix queues          (protocol/temporalmix.py)          *)
(*   - the GTR transmit pipeline        (protocol/connection.py)           *)
(*   - the Gossip and Nomssip overlays  (protocol/gossip.py, nomssip.py)   *)
(*                                                                         *)
(* Specifications:                                                         *)
(*   SpecMix  one MixSimplexConnection over virtual time                   *)
(*   Spec     a closed network of Nomssip overlays wired by connect_nodes, *)
(*            configured as queuesim does (skip_sending_noise = True)      *)
(*   SpecEnv  one Nomssip overlay with the default configuration; its      *)
(*            peers are not overlays of the model and send any frame       *)
(*   SpecConn two Nomssip overlays wired while they run                    *)
(*   SpecLive the network of Spec with activities that are always run     *)
(*   SpecQueue, SpecQueueRun, SpecQueueFair                                *)
(*            one temporal-mix queue with put and get, plain, with a scan  *)
(*            that ends, and with fair random choices                      *)
(*   SpecLink one LocalSimplexConnection and one RemoteSimplexConnection   *)
(*            (sim/connection.py) with a constant latency                  *)
(*   SpecNode one Node (protocol/node.py): its mix overlay, its broadcast  *)
(*            overlay and the Sphinx packets it is handed                  *)
(*   SpecSession                                                           *)
(*            run_session of queuesim collecting its iterations            *)
(*   SpecSim  the result loop of one queuesim iteration                    *)
(*   SpecTopo, SpecTopoFair                                                *)
(*            one call of build_full_random_topology (sim/topology.py),    *)
(*            plain and with a fair rng                                    *)
(*   SpecWire the nodes of queuesim wired along a topology that was built  *)
(*   SpecRun  Simulation.run of queuesim until its scope exits, over the   *)
(*            network of Spec on a connected topology                      *)
(***************************************************************************)
EXTENDS Naturals, Integers, Sequences, FiniteSets, TLC

VARIABLES
    \* --- configuration (NomssipConfig), fixed after construction
    mix_type,               \* config.temporal_mix.mix_type
    skip_sending_noise,     \* config.skip_sending_noise
    \* --- Gossip / Nomssip overlays
    conns,                  \* conns[n]: Gossip.conns, a list of duplex connections
    packet_cache,           \* packet_cache[n]: Gossip.packet_cache, msg id -> count
    task,                   \* task[n][i]: the inbound activity of conns[n][i]
    handled,                \* handled[n]: the messages passed to Gossip.handler
    \* --- connections
    mixq,                   \* mixq[s]: MixSimplexConnection.queue of the pipeline over s
    chan,                   \* chan[s]: LocalSimplexConnection.queue of simplex connection s
    \* --- virtual time (SpecMix)
    now,                    \* Framework.now()
    wake,                   \* the time at which the emitter's sleep ends
    sentAt,                 \* the emitter's conn.send calls: time and message
    sends,                  \* the calls of MixSimplexConnection.send: how many of each
                            \* message, and the emitter's turns before the first call
    wire,                   \* the frames sent to peers that are not in the model
    \* --- history
    gsent,                  \* gsent[n][i][p]: number of _gossip sends of p on conns[n][i]
    firstFrom,              \* firstFrom[n][p]: index of the connection p first arrived on
    backSent,               \* <<n, p>>: n sent p on the connection p had first arrived on
    copies,                 \* copies[n][p]: inbound copies of p since n published p
    injected,               \* number of frames the peers of SpecEnv have sent
    calls,                  \* number of publish calls
    raised,                 \* number of publish calls that raised AssertionError
    created,                \* the time at which the pipeline of SpecMix was created
    \* --- wiring (SpecConn)
    orphans,                \* outbound connections of refused Nomssip.add_conn calls
    wired,                  \* number of connect_nodes / add_conn calls so far
    refused,                \* number of those that raised PeeringDegreeReached
    \* --- one temporal-mix queue, its get taken flip by flip (SpecQueue)
    scan,                   \* position of the scan loop of a get under way, else 0
    puts,                   \* the messages passed to put, in order
    gots,                   \* the messages other than noise returned by get, in order
    last,                   \* what the latest get returned, and among how many
    \* --- one RemoteSimplexConnection (SpecLink)
    latency,                \* RemoteSimplexConnection.latency
    send_queue,             \* RemoteSimplexConnection.send_queue: (timestamp, msg)
    recv_queue,             \* RemoteSimplexConnection.recv_queue
    relayer,                \* where __run_relayer stands: at its get, or in its sleep
    sentLog,                \* the send calls on each kind of connection, in order
    relayLog,               \* the relayer's puts to recv_queue: time and message
    recvLog,                \* what recv returned on each kind of connection, in order
    \* --- one mix Node (SpecNode)
    nomssip,                \* Node.nomssip: its packet_cache, and the packets it gossiped
    broadcast,              \* Node.broadcast: its packet_cache, what it gossiped and handled
    pubLog,                 \* the publish calls of Node.__process_msg: overlay and message
    delivered,              \* the packets handed to the node: how many, the latest,
                            \* and whether it was passed to Node.__process_msg
    \* --- one session of queuesim (SpecSession)
    future,                 \* future_map: the state of each submitted iteration
    paramset_results,       \* paramset_results[p]: the iterations collected so far
                            \* and how often each iteration's times were added
    from_paramset,          \* the argument from_paramset of run_session
    paramset_processed,     \* history: how often __process_paramset_result was
                            \* called for each parameter set, and with which times
    paramsets_done,         \* the parameter sets whose results were processed
    session,                \* where run_session stands
    \* --- one iteration of queuesim (SpecSim)
    senders,                \* the sender nodes and how far each is in __run_sender
    next_id,                \* MessageBuilder.next_id
    received_msg_queue,     \* Simulation.received_msg_queue
    received_msg_counters,  \* received_msg_counters of the result loop
    result_cnt,             \* result_cnt of the result loop
    rows,                   \* the rows written to the output CSV, in order
    notified,               \* history: when each node's handler got each message
    \* --- one call of build_full_random_topology (SpecTopo)
    topo,                   \* its arguments, its loop position, the topology being
                            \* built, and whether it has returned or built anew;
                            \* then the wiring of the nodes along it (SpecWire): the
                            \* entries the loop has visited, len(conns) of each
                            \* node's overlay, the connect calls made for each
                            \* pair, and whether one has raised
    \* --- the scope of one queuesim iteration (SpecRun)
    scope,                  \* usim.Scope and Framework._tasks: where Simulation.run
                            \* stands, the activities started and those cancelled
    \* --- history of SpecMix
    due                     \* NONE discipline: for each message waiting, how many
                            \* messages were ahead of it at its put, the ticks left
                            \* and the time by which it is to be sent; and the same
                            \* for the message sent last

\* the state of the connections of SpecLink
linkVars == <<latency, send_queue, recv_queue, relayer, sentLog, relayLog, recvLog>>

\* the state of the mix node of SpecNode
nodeVars == <<nomssip, broadcast, pubLog, delivered>>

\* the state of the session of SpecSession
sessVars == <<future, paramset_results, paramsets_done, session, from_paramset,
              paramset_processed>>

\* the state of the iteration of SpecSim
simVars == <<senders, next_id, received_msg_queue, received_msg_counters, result_cnt,
             rows, notified>>

\* the state that the overlays, pipelines and queues above never touch
restVars == <<linkVars, nodeVars, sessVars, simVars, topo, scope>>
extVars == <<restVars, due>>

vars == <<mix_type, skip_sending_noise, conns, packet_cache, task, handled,
          mixq, chan, wire, now, wake, sentAt, gsent, firstFrom, backSent, copies,
          injected, calls, raised, created, orphans, wired, refused, scan, puts, gots, last, sends,
          extVars>>

-----------------------------------------------------------------------------
(* Bounds of the model *)

NumNodes == 3
\* number of connect_nodes calls that wire a network
MaxEdges == 3
\* NomssipConfig.peering_degree
PeeringDegree == 2
\* NomssipConfig.msg_size, in bytes
MsgSize == 2
\* number of distinct well-sized payloads a node may publish
NumPayloads == 1
\* capacity to which the model bounds a simplex connection's queue
MaxChan == 1
\* capacity to which the model bounds a temporal-mix buffer
MaxQueue == 2
\* TemporalMixConfig.min_queue_size
MinQueueSize == 2
\* SpecEnv: number of frames the peers send plus the number of publish calls
MaxEnvOps == 3
\* number of publish calls in one run
MaxPublish == 2
\* SpecMix: the sleep of the emitter, 1 / transmission_rate_per_sec, in time units
Period == 2
\* SpecMix: the end of virtual time
MaxTime == 7
\* SpecMix: latest virtual time at which the pipeline is created
MaxStart == 1
\* number of put calls on the queue of SpecQueue
MaxPuts == 2
\* SpecNode: GlobalConfig.max_mix_path_length
MaxPath == 2
\* SpecNode: number of packets handed to the node
MaxDeliver == 2
\* SpecTopo: the largest num_nodes a topology is built for
MaxTopoNodes == 4
\* SpecSim: Config.num_sent_msgs, the messages of each sender
NumSentMsgs == 2
\* SpecSim: Config.num_senders of DEFAULT_CONFIG
NumSenders == 1
\* SpecSim: Config.msg_interval_sec, in milliseconds
MsgInterval == 1
\* SpecSim: the virtual time an iteration is followed for, in milliseconds
MaxSimTime == 2
\* SpecSession: number of parameter sets of the session
NumParamsets == 2
\* SpecSession: ParameterSet.num_iterations
NumIterations == 2
\* SpecLink: number of send calls on a connection
MaxSent == 2
\* SpecLink: the largest latency a connection draws (LatencyConfig.max_latency_sec)
MaxLatency == 2

-----------------------------------------------------------------------------
(* Packets: byte strings, as sequences of byte values *)

\* FlaggedPacket.Flag
REAL == 0
NOISE == 1

Nodes == 1..NumNodes

\* run_session: paramset_id = paramset_idx + 1; __submit_iterations: range(num_iterations)
ParamsetIds == 1..NumParamsets
Iterations == 0..(NumIterations - 1)

\* the dissemination times an iteration returns, known by the parameter set and
\* the iteration they come from; a list of times is kept as the number of times
\* each iteration's times are in it
NoTimes == [t \in ParamsetIds \X Iterations |-> 0]
Simplexes == 1..(2 * MaxEdges)

Bytes(n, b) == [i \in 1..n |-> b]

\* FlaggedPacket.bytes: flag.value + message
FlaggedPacketBytes(flag, message) == <<flag>> \o message

\* FlaggedPacket.from_bytes: ValueError on an empty packet or an unknown flag
FromBytes(packet) ==
    IF Len(packet) < 1 THEN [err |-> "ValueError"]
    ELSE IF packet[1] \notin {REAL, NOISE} THEN [err |-> "ValueError"]
    ELSE [err |-> "none", flag |-> packet[1], message |-> Tail(packet)]

\* Nomssip.add_conn: FlaggedPacket(Flag.NOISE, bytes(msg_size)).bytes()
NoisePacket == FlaggedPacketBytes(NOISE, Bytes(MsgSize, 0))

\* the payloads handed to publish: well-sized ones, a short one and a long one
Payloads == {Bytes(MsgSize, b) : b \in 1..NumPayloads}
BadPayloads == {Bytes(MsgSize - 1, 1), Bytes(MsgSize + 1, 1)}

RealPackets == {FlaggedPacketBytes(REAL, m) : m \in Payloads}

\* malformed frames: an unknown flag, a wrong size, an empty frame
ForeignFrames == {<<2>> \o Bytes(MsgSize, 1),
                  FlaggedPacketBytes(REAL, Bytes(MsgSize - 1, 1)),
                  << >>}

\* HasId.id(): a digest of the contents, taken as injective
MsgId(msg) == msg

-----------------------------------------------------------------------------
(* Temporal-mix queues *)

MixTypes == {"NONE", "PURE_COIN_FLIPPING", "PURE_RANDOM_SAMPLING",
             "PERMUTED_COIN_FLIPPING", "NOISY_COIN_FLIPPING"}

\* the element is returned but stays in the buffer
PopKeeps(q, i) == q

\* the last element is moved into the place of the one taken out
PopRefills(q, i) == [j \in 1..(Len(q) - 1) |-> IF j = i THEN q[Len(q)] ELSE q[j]]

\* list.pop(i), with i counted from 1
Pop(q, i) == [j \in 1..(Len(q) - 1) |-> IF j < i THEN q[j] ELSE q[j + 1]]

\* the padding is put in front of the messages
PadFront(q, noise) ==
    IF Len(q) < MinQueueSize
    THEN [j \in 1..(MinQueueSize - Len(q)) |-> noise] \o q
    ELSE q

\* MinSizeMixQueue.get without its padding loop
PadNothing(q, noise) == q

\* the padding stops one element short of min_pool_size
PadOneShort(q, noise) ==
    IF Len(q) < MinQueueSize - 1
    THEN q \o [j \in 1..(MinQueueSize - 1 - Len(q)) |-> noise]
    ELSE q

\* MinSizeMixQueue.get: append noise until the buffer holds min_pool_size elements
Pad(q, noise) ==
    IF Len(q) < MinQueueSize
    THEN q \o [j \in 1..(MinQueueSize - Len(q)) |-> noise]
    ELSE q

\* random.shuffle: every rearrangement of the buffer
Shuffles(q) ==
    {[j \in 1..Len(q) |-> q[f[j]]] :
        f \in {g \in [1..Len(q) -> 1..Len(q)] :
                 \A a, b \in 1..Len(q) : a # b => g[a] # g[b]}}

\* every element of a buffer can end a coin-flipping scan or be sampled
PickAny(q) == {[msg |-> q[i], queue |-> Pop(q, i)] : i \in 1..Len(q)}

\* NonMixQueue.get returns the newest message
GetNewest(type, q, noise) ==
    CASE type = "NONE" ->
           IF q = << >> THEN {[msg |-> noise, queue |-> q]}
           ELSE {[msg |-> q[Len(q)], queue |-> SubSeq(q, 1, Len(q) - 1)]}
      [] type \in {"PURE_COIN_FLIPPING", "PURE_RANDOM_SAMPLING"} -> PickAny(Pad(q, noise))
      [] type = "PERMUTED_COIN_FLIPPING" ->
           UNION {PickAny(r) : r \in Shuffles(Pad(q, noise))}
      [] type = "NOISY_COIN_FLIPPING" ->
           IF q = << >> THEN {[msg |-> noise, queue |-> q]}
           ELSE {[msg |-> q[1], queue |-> Tail(q)], [msg |-> noise, queue |-> q]}

\* Queue.get of each discipline: the results the random choices allow
Get(type, q, noise) ==
    CASE type = "NONE" ->
           IF q = << >> THEN {[msg |-> noise, queue |-> q]}
           ELSE {[msg |-> Head(q), queue |-> Tail(q)]}
      [] type = "PURE_COIN_FLIPPING" -> PickAny(Pad(q, noise))
      [] type = "PURE_RANDOM_SAMPLING" -> PickAny(Pad(q, noise))
      [] type = "PERMUTED_COIN_FLIPPING" ->
           UNION {PickAny(r) : r \in Shuffles(Pad(q, noise))}
      [] type = "NOISY_COIN_FLIPPING" ->
           IF q = << >> THEN {[msg |-> noise, queue |-> q]}
           ELSE {[msg |-> q[1], queue |-> Tail(q)], [msg |-> noise, queue |-> q]}

\* Queue.put of every discipline: append at the back
Put(q, data) == Append(q, data)

-----------------------------------------------------------------------------
(* MixSimplexConnection *)

\* MixSimplexConnection.send
MixSend(s, data) == mixq' = [mixq EXCEPT ![s] = Put(@, data)]

\* the emitter skips noise whatever the flag says
ForwardsNoNoise(msg) == msg # NoisePacket

\* the emitter sends every frame whatever the flag says
ForwardsAll(msg) == TRUE

\* whether __run hands msg to conn.send
Forwards(msg) == ~(skip_sending_noise /\ msg = NoisePacket)

\* one turn of MixSimplexConnection.__run after its sleep, r being the result of
\* queue.get(): conn.send(r.msg) unless the noise is skipped. A connection that no
\* overlay of the model reads hands the frame to its peer at once.
RunTurn(s, r, read) ==
    /\ mixq' = [mixq EXCEPT ![s] = r.queue]
    /\ chan' = [chan EXCEPT ![s] =
                  IF Forwards(r.msg) /\ read THEN Append(@, r.msg) ELSE @]
    /\ wire' = IF Forwards(r.msg) /\ ~read THEN wire \cup {r.msg} ELSE wire

\* the emitter sleeps longer than 1 / transmission_rate_per_sec
SleepUntilLate(t) == t + Period + 1

\* framework.sleep(1 / transmission_rate_per_sec)
SleepUntil(t) == t + Period

-----------------------------------------------------------------------------
(* Gossip and Nomssip overlays *)

\* one connection too many is accepted
CanAcceptConnOffByOne(cs, n) == Len(cs[n]) <= PeeringDegree

\* Gossip.can_accept_conn
CanAcceptConn(cs, n) == Len(cs[n]) < PeeringDegree

\* Gossip.add_conn on an overlay that can accept: append the duplex connection
AddConn(cs, n, inbound, outbound) ==
    [cs EXCEPT ![n] = Append(@, [inbound |-> inbound, outbound |-> outbound])]

\* connect_nodes: the check of both overlays, then the two add_conn calls, the
\* second of which raises PeeringDegreeReached when the first has filled the overlay
ConnectNodes(cs, a, b, inbound, outbound) ==
    IF ~CanAcceptConn(cs, a) \/ ~CanAcceptConn(cs, b) THEN cs
    ELSE LET c1 == AddConn(cs, a, inbound, outbound)
         IN  IF CanAcceptConn(c1, b) THEN AddConn(c1, b, outbound, inbound) ELSE c1

\* the wiring loop of a simulation: connect_nodes for every edge, each with two
\* fresh simplex connections
RECURSIVE Wire(_, _)
Wire(edges, k) ==
    IF k = 0 THEN [n \in Nodes |-> << >>]
    ELSE ConnectNodes(Wire(edges, k - 1), edges[k][1], edges[k][2], 2 * k - 1, 2 * k)

\* the networks of the model: a line, a double edge, a self-loop beside an edge
Topologies == {<<<<1, 2>>, <<2, 3>>>>,
               <<<<1, 2>>, <<1, 2>>>>,
               <<<<1, 1>>, <<1, 2>>, <<2, 3>>>>}

ConnIdx(n) == 1..Len(conns[n])

\* the simplex connections wrapped in a MixSimplexConnection by Nomssip.add_conn:
\* the wrapper is built, and its emitter spawned, before Gossip.add_conn accepts
\* or refuses the connection
Pipelines == UNION {{conns[n][i].outbound : i \in ConnIdx(n)} : n \in Nodes} \cup orphans

\* the publisher starts its count at 1, as an inbound copy does
CheckUpdateCachePublishOne(cache, id, publishing) ==
    LET seen == id \in DOMAIN cache
    IN  IF ~seen THEN cache @@ (id :> 1)
        ELSE IF publishing THEN cache
        ELSE IF cache[id] + 1 >= PeeringDegree
             THEN [k \in DOMAIN cache \ {id} |-> cache[k]]
             ELSE [cache EXCEPT ![id] = @ + 1]

\* Gossip._check_update_cache: the cache after the call
CheckUpdateCache(cache, id, publishing) ==
    LET seen == id \in DOMAIN cache
    IN  IF publishing
        THEN IF ~seen THEN cache @@ (id :> 0) ELSE cache
        ELSE IF ~seen THEN cache @@ (id :> 1)
             ELSE IF cache[id] + 1 >= PeeringDegree
                  THEN [k \in DOMAIN cache \ {id} |-> cache[k]]
                  ELSE [cache EXCEPT ![id] = @ + 1]

\* Gossip._check_update_cache: its return value
Seen(cache, id) == id \in DOMAIN cache

\* the test of excludes is inverted
GossipInverted(n, msg, excludes) ==
    LET to == ConnIdx(n) \cap excludes
    IN  /\ mixq' = [s \in Simplexes |->
                      IF \E i \in to : conns[n][i].outbound = s
                      THEN Put(mixq[s], msg) ELSE mixq[s]]
        /\ UNCHANGED <<gsent, backSent>>

\* Gossip._gossip: conn.send(msg) on every connection of n not in excludes
Gossip(n, msg, excludes) ==
    LET to == ConnIdx(n) \ excludes
    IN  /\ mixq' = [s \in Simplexes |->
                      IF \E i \in to : conns[n][i].outbound = s
                      THEN Put(mixq[s], msg) ELSE mixq[s]]
        /\ gsent' = [gsent EXCEPT ![n] =
                      [i \in DOMAIN @ |->
                         IF i \in to /\ msg \in DOMAIN @[i]
                         THEN [@[i] EXCEPT ![msg] = IF @ < 2 THEN @ + 1 ELSE @]
                         ELSE @[i]]]
        /\ backSent' = backSent \cup
                         {<<n, msg>> : i \in {j \in to : msg \in RealPackets /\ firstFrom[n][msg] = j}}

\* Nomssip.assert_message_size
MessageSizeOk(message) == Len(message) = MsgSize

\* _process_inbound_msg without assert_message_size
InboundOutcomeNoAssert(msg) ==
    LET packet == FromBytes(msg)
    IN  IF packet.err # "none" THEN "raise"
        ELSE IF packet.flag = NOISE THEN "drop"
        ELSE "gossip"

\* Nomssip._process_inbound_msg: what becomes of an inbound frame not seen before
InboundOutcome(msg) ==
    LET packet == FromBytes(msg)
    IN  IF packet.err # "none" THEN "raise"
        ELSE IF packet.flag = NOISE THEN "drop"
        ELSE IF ~MessageSizeOk(packet.message) THEN "raise"
        ELSE "gossip"

\* publish without assert_message_size
PublishAcceptsAll(msg) == TRUE

\* Nomssip.publish: the assertion that precedes everything else
PublishAccepts(msg) == MessageSizeOk(msg)

\* the overlay and connection that read simplex connection s
Reader(s) == {<<n, i>> \in Nodes \X (1..PeeringDegree) :
                 i \in ConnIdx(n) /\ conns[n][i].inbound = s}

\* one turn of Gossip.__process_inbound_conn on conns[n][i]: recv, the cache,
\* then Nomssip._process_inbound_msg
ProcessInboundConn(n, i) ==
    /\ i \in ConnIdx(n)
    /\ task[n][i] = "running"
    /\ chan[conns[n][i].inbound] # << >>
    /\ LET s == conns[n][i].inbound
           msg == Head(chan[s])
           seen == Seen(packet_cache[n], MsgId(msg))
           out == IF seen THEN "seen" ELSE InboundOutcome(msg)
       IN  /\ chan' = [chan EXCEPT ![s] = Tail(@)]
           /\ packet_cache' = [packet_cache EXCEPT
                                 ![n] = CheckUpdateCache(@, MsgId(msg), FALSE)]
           /\ IF out = "gossip"
              THEN /\ Gossip(n, msg, {i})
                   /\ handled' = [handled EXCEPT ![n] = Append(@, FromBytes(msg).message)]
              ELSE UNCHANGED <<mixq, gsent, backSent, handled>>
           /\ task' = IF out = "raise" THEN [task EXCEPT ![n][i] = "failed"] ELSE task
           /\ firstFrom' = IF msg \in RealPackets /\ firstFrom[n][msg] = 0
                           THEN [firstFrom EXCEPT ![n][msg] = i] ELSE firstFrom
           /\ copies' = IF msg \in RealPackets /\ copies[n][msg] >= 0
                        THEN [copies EXCEPT ![n][msg] =
                                IF @ <= PeeringDegree THEN @ + 1 ELSE @]
                        ELSE copies
    /\ UNCHANGED <<wire, mix_type, skip_sending_noise, conns, now, wake, sentAt, injected,
                   calls, raised, created, orphans, wired, refused, scan, puts, gots, last, sends>>

\* the same turn in a network that is all there is
Inbound(n, i) == ProcessInboundConn(n, i) /\ UNCHANGED extVars

\* Nomssip.publish(msg) on overlay n
PublishCall(n, msg) ==
    /\ calls < MaxPublish
    /\ calls' = calls + 1
    /\ IF ~PublishAccepts(msg)
       THEN /\ raised' = raised + 1
            /\ UNCHANGED <<packet_cache, mixq, gsent, backSent, handled, copies>>
       ELSE LET packet == FlaggedPacketBytes(REAL, msg)
                seen == Seen(packet_cache[n], MsgId(packet))
            IN  /\ packet_cache' = [packet_cache EXCEPT
                                      ![n] = CheckUpdateCache(@, MsgId(packet), TRUE)]
                /\ IF ~seen
                   THEN /\ Gossip(n, packet, {})
                        /\ handled' = [handled EXCEPT ![n] = Append(@, msg)]
                        /\ copies' = IF packet \in RealPackets
                                     THEN [copies EXCEPT ![n][packet] = 0] ELSE copies
                   ELSE UNCHANGED <<mixq, gsent, backSent, handled, copies>>
                /\ UNCHANGED raised
    /\ UNCHANGED <<wire, mix_type, skip_sending_noise, conns, task, chan, now, wake,
                   sentAt, firstFrom, injected, created, orphans, wired, refused, scan, puts, gots, last, sends>>

\* Nomssip.publish in a network that is all there is
Publish(n, msg) == PublishCall(n, msg) /\ UNCHANGED extVars

\* a turn of the emitter of the pipeline over s; the model holds it back while
\* the connection's queue is at its bound
EmitterTurn(s) ==
    /\ s \in Pipelines
    /\ Len(chan[s]) < MaxChan
    /\ \E r \in Get(mix_type, mixq[s], NoisePacket) : RunTurn(s, r, Reader(s) # {})
    /\ UNCHANGED <<mix_type, skip_sending_noise, conns, packet_cache, task, handled,
                   now, wake, sentAt, gsent, firstFrom, backSent, copies, injected,
                   calls, raised, created, orphans, wired, refused, scan, puts, gots, last, sends>>

\* the emitter's turn in a network that is all there is
Emit(s) == EmitterTurn(s) /\ UNCHANGED extVars

\* a peer that is no overlay of the model sends a frame on simplex connection s
\* (SimplexConnection.send); the model bounds the number of such frames
Inject(s, frame) ==
    /\ injected + calls < MaxEnvOps
    /\ Len(chan[s]) < MaxChan
    /\ Reader(s) # {}
    /\ s \notin Pipelines
    /\ chan' = [chan EXCEPT ![s] = Append(@, frame)]
    /\ injected' = injected + 1
    /\ UNCHANGED <<wire, mix_type, skip_sending_noise, conns, packet_cache, task, handled,
                   mixq, now, wake, sentAt, gsent, firstFrom, backSent, copies,
                   calls, raised, created, orphans, wired, refused, scan, puts, gots, last, sends, extVars>>

-----------------------------------------------------------------------------
(* Spec: a closed network of Nomssip overlays, configured as queuesim does *)

\* the temporal-mix disciplines the overlay of SpecEnv is run with
NetMixTypes == {"NONE", "NOISY_COIN_FLIPPING"}

\* the state of the overlays and connections right after construction
Fresh ==
    /\ packet_cache = [n \in Nodes |-> << >>]
    /\ task = [n \in Nodes |-> [i \in 1..PeeringDegree |-> "running"]]
    /\ handled = [n \in Nodes |-> << >>]
    /\ mixq = [s \in Simplexes |-> << >>]
    /\ chan = [s \in Simplexes |-> << >>]
    /\ sentAt = << >>
    /\ wire = {}
    /\ gsent = [n \in Nodes |-> [i \in 1..PeeringDegree |-> [p \in RealPackets |-> 0]]]
    /\ firstFrom = [n \in Nodes |-> [p \in RealPackets |-> 0]]
    /\ backSent = {}
    /\ copies = [n \in Nodes |-> [p \in RealPackets |-> -1]]
    /\ injected = 0
    /\ calls = 0
    /\ raised = 0
    /\ orphans = {}
    /\ wired = 0
    /\ refused = 0
    /\ scan = 0
    /\ puts = << >>
    /\ gots = << >>
    /\ last = [msg |-> << >>, among |-> 0]
    /\ sends = [n |-> [p \in RealPackets |-> 0], first |-> -1]
    /\ send_queue = << >>
    /\ recv_queue = << >>
    /\ relayer = [pc |-> "get"]
    /\ nomssip = [packet_cache |-> << >>, sent |-> << >>]
    /\ broadcast = [packet_cache |-> << >>, sent |-> << >>, handled |-> << >>]
    /\ pubLog = << >>
    /\ future = [p \in ParamsetIds |-> [i \in Iterations |-> "none"]]
    /\ paramset_results = [p \in ParamsetIds |-> [iters |-> {}, times |-> NoTimes]]
    /\ paramsets_done = {}
    /\ session = "idle"
    /\ from_paramset = 1
    /\ paramset_processed = [p \in ParamsetIds |-> [n |-> 0, times |-> NoTimes]]
    /\ senders = << >>
    /\ next_id = 0
    /\ received_msg_queue = << >>
    /\ received_msg_counters = << >>
    /\ result_cnt = 0
    /\ rows = << >>
    /\ notified = << >>
    /\ due = [wait |-> << >>, last |-> [k |-> -1, by |-> 0, at |-> 0]]
    /\ scope = [pc |-> "idle", children |-> {}, tasks |-> {}, cancelled |-> {}]
    /\ topo = [num_nodes |-> 0, peering_degree |-> 0, node |-> 0, topology |-> << >>,
               returned |-> FALSE, rebuilt |-> FALSE,
               visited |-> {}, conns |-> [n \in 0..(MaxTopoNodes - 1) |-> 0],
               connected |-> << >>, raised |-> FALSE]
    /\ delivered = [n |-> 0, msg |-> << >>, handler |-> FALSE]
    /\ sentLog = [kind \in {"local", "remote"} |-> << >>]
    /\ relayLog = << >>
    /\ recvLog = [kind \in {"local", "remote"} |-> << >>]

Init ==
    /\ mix_type = "NONE"
    /\ skip_sending_noise = TRUE
    /\ \E t \in Topologies : conns = Wire(t, Len(t))
    /\ now = 0 /\ wake = 0 /\ created = 0
    /\ Fresh
    /\ latency = 0

Next ==
    \/ \E n \in Nodes : \E msg \in Payloads \cup BadPayloads : Publish(n, msg)
    \/ \E n \in Nodes : \E i \in 1..PeeringDegree : Inbound(n, i)
    \/ \E s \in Simplexes : Emit(s)

Spec == Init /\ [][Next]_vars

\* the inbound and emitter activities: the framework runs every task it has spawned
Deliver ==
    \/ \E n \in Nodes : \E i \in 1..PeeringDegree : Inbound(n, i)
    \/ \E s \in Simplexes : Emit(s)

\* the publish calls of SpecLive: a message is published by one overlay, once
PublishNew(n, msg) ==
    /\ msg \in Payloads =>
          \A k \in Nodes : copies[k][FlaggedPacketBytes(REAL, msg)] = -1
    /\ Publish(n, msg)

NextLive ==
    \/ \E n \in Nodes : \E msg \in Payloads \cup BadPayloads : PublishNew(n, msg)
    \/ Deliver

\* the network of Spec with activities that are never cancelled and that the
\* framework always schedules in the end
SpecLive == Init /\ [][NextLive]_vars /\ WF_vars(Deliver)

-----------------------------------------------------------------------------
(* SpecEnv: one Nomssip overlay, with the default configuration, whose peers   *)
(* are not overlays of the model: they send any frame and receive every frame *)

\* the frames a peer sends: noise, real packets, and the malformed ones
PeerFrames == {NoisePacket} \cup RealPackets \cup ForeignFrames

\* overlay 1 after add_conn(1, 2) and add_conn(3, 4)
InitEnv ==
    /\ mix_type \in NetMixTypes
    /\ skip_sending_noise = FALSE
    /\ conns = AddConn(AddConn([n \in Nodes |-> << >>], 1, 1, 2), 1, 3, 4)
    /\ now = 0 /\ wake = 0 /\ created = 0
    /\ Fresh
    /\ latency = 0

NextEnv ==
    \/ \E msg \in Payloads \cup BadPayloads :
          injected + calls < MaxEnvOps /\ Publish(1, msg)
    \/ \E i \in 1..PeeringDegree : Inbound(1, i)
    \/ \E s \in Simplexes : Emit(s)
    \/ \E s \in Simplexes : \E frame \in PeerFrames : Inject(s, frame)

SpecEnv == InitEnv /\ [][NextEnv]_vars

-----------------------------------------------------------------------------
(* SpecConn: two Nomssip overlays, configured as queuesim does, that are wired *)
(* while they run, by connect_nodes and by add_conn calls of peers outside     *)

\* the two fresh simplex connections a wiring call is given
FreshIn == 2 * wired + 1
FreshOut == 2 * wired + 2

\* Nomssip.add_conn(inbound, outbound) on overlay n, called by a peer: the
\* MixSimplexConnection over outbound is built first, then Gossip.add_conn
\* appends the connection or raises PeeringDegreeReached
AddConnCall(n) ==
    /\ wired < MaxEdges
    /\ wired + calls < MaxEnvOps
    /\ wired' = wired + 1
    /\ IF CanAcceptConn(conns, n)
       THEN /\ conns' = AddConn(conns, n, FreshIn, FreshOut)
            /\ UNCHANGED <<orphans, refused>>
       ELSE /\ orphans' = orphans \cup {FreshOut}
            /\ refused' = refused + 1
            /\ UNCHANGED conns
    /\ UNCHANGED <<mix_type, skip_sending_noise, packet_cache, task, handled, mixq, chan,
                   wire, now, wake, sentAt, gsent, firstFrom, backSent, copies,
                   injected, calls, raised, created, scan, puts, gots, last, sends, extVars>>

\* connect_nodes(a, b, inbound, outbound): a.add_conn(inbound, outbound), then
\* b.add_conn(outbound, inbound), after the check of both overlays
ConnectNodesCall(a, b) ==
    /\ wired < MaxEdges
    /\ wired + calls < MaxEnvOps
    /\ wired' = wired + 1
    /\ conns' = ConnectNodes(conns, a, b, FreshIn, FreshOut)
    /\ LET checked == CanAcceptConn(conns, a) /\ CanAcceptConn(conns, b)
           second == checked /\ CanAcceptConn(AddConn(conns, a, FreshIn, FreshOut), b)
       IN  /\ orphans' = IF checked /\ ~second THEN orphans \cup {FreshIn} ELSE orphans
           /\ refused' = IF second THEN refused ELSE refused + 1
    /\ UNCHANGED <<mix_type, skip_sending_noise, packet_cache, task, handled, mixq, chan,
                   wire, now, wake, sentAt, gsent, firstFrom, backSent, copies,
                   injected, calls, raised, created, scan, puts, gots, last, sends, extVars>>

InitConn ==
    /\ mix_type = "NONE"
    /\ skip_sending_noise = TRUE
    /\ conns = [n \in Nodes |-> << >>]
    /\ now = 0 /\ wake = 0 /\ created = 0
    /\ Fresh
    /\ latency = 0

\* connect_nodes is given two overlays: the overlays of SpecConn
ConnNodes == {1, 2}

NextConn ==
    \/ \E a, b \in ConnNodes : ConnectNodesCall(a, b)
    \/ \E n \in ConnNodes : AddConnCall(n)
    \/ \E n \in ConnNodes : \E msg \in Payloads : wired + calls < MaxEnvOps /\ Publish(n, msg)
    \/ \E n \in ConnNodes : \E i \in 1..PeeringDegree : Inbound(n, i)
    \/ \E s \in Simplexes : Emit(s)

SpecConn == InitConn /\ [][NextConn]_vars

-----------------------------------------------------------------------------
(* SpecMix: one MixSimplexConnection, over simplex connection 1, in virtual time *)

InitMix ==
    /\ mix_type \in MixTypes
    /\ skip_sending_noise \in BOOLEAN
    /\ conns = [n \in Nodes |-> << >>]
    /\ created \in 0..MaxStart
    /\ now = created
    /\ wake = SleepUntil(created)
    /\ Fresh
    /\ latency = 0

\* the number of turns of __run so far: the emitter sleeps until wake, its
\* (Turns + 1)-th sleep since it was created
Turns == (wake - created) \div Period - 1

\* a caller of MixSimplexConnection.send
MixSendCall(data) ==
    /\ Len(mixq[1]) < MaxQueue
    /\ MixSend(1, data)
    /\ sends' = [n |-> [sends.n EXCEPT ![data] = @ + 1],
                 first |-> IF sends.first < 0 THEN Turns ELSE sends.first]
    /\ due' = IF mix_type = "NONE"
              THEN [due EXCEPT !.wait =
                      Append(@, [k |-> Len(mixq[1]), ticks |-> Len(mixq[1]) + 1,
                                 by |-> now + (Len(mixq[1]) + 1) * Period])]
              ELSE due
    /\ UNCHANGED <<wire, mix_type, skip_sending_noise, conns, packet_cache, task, handled,
                   chan, now, wake, sentAt, gsent, firstFrom, backSent, copies,
                   injected, calls, raised, created, orphans, wired, refused, scan, puts, gots, last,
                   restVars>>

\* MixSimplexConnection.__run: the sleep has ended; get, send, sleep again
MixRun ==
    /\ now = wake
    /\ \E r \in Get(mix_type, mixq[1], NoisePacket) :
          /\ RunTurn(1, r, FALSE)
          /\ sentAt' = IF Forwards(r.msg)
                       THEN Append(sentAt, [t |-> now, msg |-> r.msg]) ELSE sentAt
    /\ wake' = SleepUntil(now)
    /\ due' = IF due.wait = << >> THEN due
              ELSE [wait |-> [j \in 1..(Len(due.wait) - 1) |->
                                [due.wait[j + 1] EXCEPT !.ticks = @ - 1]],
                    last |-> [k |-> due.wait[1].k, by |-> due.wait[1].by, at |-> now]]
    /\ UNCHANGED <<mix_type, skip_sending_noise, conns, packet_cache, task, handled,
                   now, gsent, firstFrom, backSent, copies, injected, calls, raised,
                   created, orphans, wired, refused, scan, puts, gots, last, sends, restVars>>

\* virtual time passes while no activity is due
Advance ==
    /\ now < wake
    /\ now < MaxTime
    /\ now' = now + 1
    /\ UNCHANGED <<wire, mix_type, skip_sending_noise, conns, packet_cache, task, handled,
                   mixq, chan, wake, sentAt, gsent, firstFrom, backSent, copies,
                   injected, calls, raised, created, orphans, wired, refused, scan, puts, gots, last, sends,
          extVars>>

NextMix ==
    \/ \E data \in RealPackets : MixSendCall(data)
    \/ MixRun
    \/ Advance

SpecMix == InitMix /\ [][NextMix]_vars

-----------------------------------------------------------------------------
(* SpecQueue: one temporal-mix queue, mixq[1], with put and get; a get of a    *)
(* coin-flipping discipline is taken one coin at a time                        *)

\* the messages handed to put
QueueData == {FlaggedPacketBytes(REAL, Bytes(MsgSize, b)) : b \in 1..MaxPuts}

\* the disciplines built on MinSizeMixQueue
MinSizeTypes == {"PURE_COIN_FLIPPING", "PURE_RANDOM_SAMPLING", "PERMUTED_COIN_FLIPPING"}

\* the disciplines whose get scans the buffer flipping coins
ScanTypes == {"PURE_COIN_FLIPPING", "PERMUTED_COIN_FLIPPING", "NOISY_COIN_FLIPPING"}

\* NoisyCoinFlippingQueue.get without its "else: if i == 0" branch
FlipScansOn(type, q, pos, coin, noise) ==
    IF coin = 1
    THEN [done |-> TRUE, msg |-> q[pos], queue |-> Pop(q, pos), pos |-> 0]
    ELSE [done |-> FALSE, msg |-> noise, queue |-> q,
          pos |-> IF pos >= Len(q) THEN 1 ELSE pos + 1]

\* one pass of the body of "for i in range(len(self._queue))" at position pos
\* (counted from 1) with the coin rng.randint(0, 1): the get returns, or the scan
\* goes on, starting again at the front after the last position
Flip(type, q, pos, coin, noise) ==
    IF coin = 1
    THEN [done |-> TRUE, msg |-> q[pos], queue |-> Pop(q, pos), pos |-> 0]
    ELSE IF type = "NOISY_COIN_FLIPPING" /\ pos = 1
         THEN [done |-> TRUE, msg |-> noise, queue |-> q, pos |-> 0]
         ELSE [done |-> FALSE, msg |-> noise, queue |-> q,
               pos |-> IF pos >= Len(q) THEN 1 ELSE pos + 1]

\* get returns msg, chosen among a buffer of `among` elements, and leaves q
Return(msg, among, q) ==
    /\ mixq' = [mixq EXCEPT ![1] = q]
    /\ scan' = 0
    /\ last' = [msg |-> msg, among |-> among]
    /\ gots' = IF msg # NoisePacket /\ Len(gots) <= MaxPuts THEN Append(gots, msg) ELSE gots

\* what SpecQueue never changes
QueueFrame ==
    UNCHANGED <<mix_type, skip_sending_noise, conns, packet_cache, task, handled, chan,
                wire, now, wake, sentAt, gsent, firstFrom, backSent, copies, injected,
                calls, raised, created, orphans, wired, refused, sends, extVars>>

\* Queue.put(data); the loops of get do not await, so no put runs during a get
QPut(data) ==
    /\ scan = 0
    /\ Len(puts) < MaxPuts
    /\ mixq' = [mixq EXCEPT ![1] = Put(@, data)]
    /\ puts' = Append(puts, data)
    /\ UNCHANGED <<scan, gots, last>>
    /\ QueueFrame

\* NonMixQueue.get
QGetNone ==
    /\ scan = 0
    /\ mix_type = "NONE"
    /\ \E r \in Get(mix_type, mixq[1], NoisePacket) : Return(r.msg, Len(mixq[1]), r.queue)
    /\ UNCHANGED puts
    /\ QueueFrame

\* PureRandomSamplingQueue.get with rng.randint(0, len - 1) = i - 1
QSample(i) ==
    /\ scan = 0
    /\ mix_type = "PURE_RANDOM_SAMPLING"
    /\ LET pool == Pad(mixq[1], NoisePacket)
       IN  /\ i \in 1..Len(pool)
           /\ Return(pool[i], Len(pool), Pop(pool, i))
    /\ UNCHANGED puts
    /\ QueueFrame

\* the get of a coin-flipping discipline up to its scan: the padding and the
\* shuffle, or the noise that NoisyCoinFlippingQueue returns for an empty buffer
QStart ==
    /\ scan = 0
    /\ mix_type \in ScanTypes
    /\ CASE mix_type = "PURE_COIN_FLIPPING" ->
              /\ mixq' = [mixq EXCEPT ![1] = Pad(@, NoisePacket)]
              /\ scan' = 1
              /\ UNCHANGED <<gots, last>>
         [] mix_type = "PERMUTED_COIN_FLIPPING" ->
              /\ \E r \in Shuffles(Pad(mixq[1], NoisePacket)) :
                    mixq' = [mixq EXCEPT ![1] = r]
              /\ scan' = 1
              /\ UNCHANGED <<gots, last>>
         [] mix_type = "NOISY_COIN_FLIPPING" ->
              IF mixq[1] = << >>
              THEN Return(NoisePacket, 0, mixq[1])
              ELSE scan' = 1 /\ UNCHANGED <<mixq, gots, last>>
    /\ UNCHANGED puts
    /\ QueueFrame

\* the next coin of the scan
QFlip(coin) ==
    /\ scan \in 1..Len(mixq[1])
    /\ LET f == Flip(mix_type, mixq[1], scan, coin, NoisePacket)
       IN  IF f.done
           THEN Return(f.msg, Len(mixq[1]), f.queue)
           ELSE scan' = f.pos /\ UNCHANGED <<mixq, gots, last>>
    /\ UNCHANGED puts
    /\ QueueFrame

InitQueue ==
    /\ mix_type \in MixTypes
    /\ skip_sending_noise = FALSE
    /\ conns = [n \in Nodes |-> << >>]
    /\ now = 0 /\ wake = 0 /\ created = 0
    /\ Fresh
    /\ latency = 0

\* a call of get
QGet == QGetNone \/ QStart \/ \E i \in 1..(MaxPuts + MinQueueSize) : QSample(i)

NextQueue ==
    \/ \E data \in QueueData : QPut(data)
    \/ QGetNone
    \/ \E i \in 1..(MaxPuts + MinQueueSize) : QSample(i)
    \/ QStart
    \/ \E coin \in {0, 1} : QFlip(coin)

SpecQueue == InitQueue /\ [][NextQueue]_vars

\* SpecQueue with a scan that runs on (get does not await) and a coin that does
\* not come up 0 for ever
SpecQueueRun ==
    /\ InitQueue /\ [][NextQueue]_vars
    /\ WF_vars(\E coin \in {0, 1} : QFlip(coin))
    /\ SF_vars(QFlip(1))

\* the front of the buffer is a message, not noise
RealFirst == mixq[1] # << >> /\ mixq[1][1] # NoisePacket

\* SpecQueue with get called again and again and fair random choices: a choice
\* that is possible again and again is made again and again (the coin 1 at the
\* front, also when the front is a message; a shuffle that brings a message to
\* the front; the first index)
SpecQueueFair ==
    /\ InitQueue /\ [][NextQueue]_vars
    /\ WF_vars(QGet)
    /\ WF_vars(\E coin \in {0, 1} : QFlip(coin))
    /\ SF_vars(QFlip(1) /\ scan = 1)
    /\ SF_vars(QFlip(1) /\ scan = 1 /\ RealFirst)
    /\ SF_vars(QStart /\ RealFirst')
    /\ SF_vars(QSample(1))

-----------------------------------------------------------------------------
(* SpecLink: a LocalSimplexConnection, whose queue is chan[1], and a           *)
(* RemoteSimplexConnection, each with a sender and a receiver, in virtual time *)

\* the receiver is handed the newest message
QueueGetNewest(q) == [msg |-> q[Len(q)], queue |-> SubSeq(q, 1, Len(q) - 1)]

\* framework Queue.put and Queue.get: usim.Queue, first in first out
QueuePut(q, data) == Append(q, data)
QueueGet(q) == [msg |-> Head(q), queue |-> Tail(q)]

\* the relayer sleeps the whole latency whatever time has passed
RelayDelayWhole(sent_time) == latency

\* __run_relayer: delay = self.latency - (self.framework.now() - sent_time)
RelayDelay(sent_time) == latency - (now - sent_time)

\* what SpecLink never changes
LinkFrame ==
    UNCHANGED <<mix_type, skip_sending_noise, conns, packet_cache, task, handled, mixq,
                wire, wake, sentAt, gsent, firstFrom, backSent, copies, injected,
                calls, raised, created, orphans, wired, refused, scan, puts, gots, last,
                sends, due, scope,
                latency, nodeVars, sessVars, simVars, topo>>

\* the sender's next message: the senders number their messages
NextData(kind) == Len(sentLog[kind]) + 1

\* LocalSimplexConnection.send
LocalSend ==
    /\ Len(sentLog["local"]) < MaxSent
    /\ chan' = [chan EXCEPT ![1] = QueuePut(@, NextData("local"))]
    /\ sentLog' = [sentLog EXCEPT !["local"] =
                     Append(@, NextData("local"))]
    /\ UNCHANGED <<now, send_queue, recv_queue, relayer, relayLog, recvLog>>
    /\ LinkFrame

\* LocalSimplexConnection.recv, a message being there
LocalRecv ==
    /\ chan[1] # << >>
    /\ LET r == QueueGet(chan[1])
       IN  /\ chan' = [chan EXCEPT ![1] = r.queue]
           /\ recvLog' = [recvLog EXCEPT !["local"] = Append(@, r.msg)]
    /\ UNCHANGED <<now, send_queue, recv_queue, relayer, sentLog, relayLog>>
    /\ LinkFrame

\* RemoteSimplexConnection.send: the message is queued with the time of the call
RemoteSend ==
    /\ Len(sentLog["remote"]) < MaxSent
    /\ send_queue' = QueuePut(send_queue, [t |-> now, data |-> NextData("remote")])
    /\ sentLog' = [sentLog EXCEPT !["remote"] =
                     Append(@, [t |-> now, data |-> NextData("remote")])]
    /\ UNCHANGED <<now, chan, recv_queue, relayer, relayLog, recvLog>>
    /\ LinkFrame

\* the relayer puts data to recv_queue
Relay(data) ==
    /\ recv_queue' = QueuePut(recv_queue, data)
    /\ relayLog' = Append(relayLog, [t |-> now, data |-> data])
    /\ relayer' = [pc |-> "get"]

\* __run_relayer from its get: the next message of send_queue, then the sleep
\* for what is left of the latency, or the put at once
RelayGet ==
    /\ relayer.pc = "get"
    /\ send_queue # << >>
    /\ LET r == QueueGet(send_queue)
           delay == RelayDelay(r.msg.t)
       IN  /\ send_queue' = r.queue
           /\ IF delay > 0
              THEN /\ relayer' = [pc |-> "sleep", until |-> now + delay, data |-> r.msg.data]
                   /\ UNCHANGED <<recv_queue, relayLog>>
              ELSE Relay(r.msg.data)
    /\ UNCHANGED <<now, chan, sentLog, recvLog>>
    /\ LinkFrame

\* __run_relayer after its sleep
RelayWake ==
    /\ relayer.pc = "sleep"
    /\ relayer.until <= now
    /\ Relay(relayer.data)
    /\ UNCHANGED <<now, chan, send_queue, sentLog, recvLog>>
    /\ LinkFrame

\* RemoteSimplexConnection.recv, a message being there
RemoteRecv ==
    /\ recv_queue # << >>
    /\ LET r == QueueGet(recv_queue)
       IN  /\ recv_queue' = r.queue
           /\ recvLog' = [recvLog EXCEPT !["remote"] = Append(@, r.msg)]
    /\ UNCHANGED <<now, chan, send_queue, relayer, sentLog, relayLog>>
    /\ LinkFrame

\* virtual time passes when the relayer has nothing to do at this time: usim
\* runs every activity that can run before it moves the clock
LinkAdvance ==
    /\ now < MaxTime
    /\ ~ENABLED RelayGet
    /\ ~ENABLED RelayWake
    /\ now' = now + 1
    /\ UNCHANGED <<chan, send_queue, recv_queue, relayer, sentLog, relayLog, recvLog>>
    /\ LinkFrame

\* the connections right after construction: the latency is drawn once
InitLink ==
    /\ mix_type = "NONE"
    /\ skip_sending_noise = TRUE
    /\ conns = [n \in Nodes |-> << >>]
    /\ now = 0 /\ wake = 0 /\ created = 0
    /\ Fresh
    /\ latency \in 0..MaxLatency

NextLink ==
    \/ LocalSend
    \/ LocalRecv
    \/ RemoteSend
    \/ RelayGet
    \/ RelayWake
    \/ RemoteRecv
    \/ LinkAdvance

SpecLink == InitLink /\ [][NextLink]_vars

-----------------------------------------------------------------------------
(* SpecNode: one mix Node, with its NomMix overlay and its broadcast overlay; *)
(* its peers and its own send_message hand it Sphinx packets                   *)

\* the private keys of the mix nodes: the key of the node of SpecNode, and the
\* key of any other node
OwnKey == 1
OtherKey == 2
Keys == {OwnKey, OtherKey}

\* MixMembership.generate_route: rng.choices, so a node may follow itself
RECURSIVE Routes(_)
Routes(k) == IF k = 0 THEN {<< >>} ELSE {<<h>> \o r : h \in Keys, r \in Routes(k - 1)}

\* the header of a Sphinx packet: the hops still to go, first hop first
HopBase == 3
RECURSIVE Header(_)
Header(route) == IF route = << >> THEN 0 ELSE route[1] + HopBase * Header(Tail(route))

\* SphinxPacket.bytes(): msg_size bytes, the header first and the payload last
SphinxBytes(route, payload) == <<Header(route)>> \o Bytes(MsgSize - 2, 0) \o <<payload>>

\* the packets the node is handed: every route of 1..max_mix_path_length hops
SphinxPackets ==
    {SphinxBytes(route, payload) :
        route \in UNION {Routes(k) : k \in 1..MaxPath}, payload \in 1..NumPayloads}

\* SphinxPacket.process(private_key): ValueError unless the first hop is the
\* owner of the key; the next packet, or the payload after the last hop
Process(packet, key) ==
    LET hop == packet[1] % HopBase
        rest == packet[1] \div HopBase
    IN  IF hop # key THEN [kind |-> "ValueError"]
        ELSE IF rest # 0
             THEN [kind |-> "ProcessedForwardHopPacket", value |-> <<rest>> \o Tail(packet)]
             ELSE [kind |-> "ProcessedFinalHopPacket", value |-> <<packet[Len(packet)]>>]

\* Node.__process_sphinx_packet: the next packet, the payload, or None
ProcessSphinxPacket(packet) ==
    LET processed == Process(packet, OwnKey)
    IN  CASE processed.kind = "ProcessedForwardHopPacket" ->
               [type |-> "SphinxPacket", value |-> processed.value]
          [] processed.kind = "ProcessedFinalHopPacket" ->
               [type |-> "bytes", value |-> processed.value]
          [] OTHER -> [type |-> "None", value |-> << >>]

\* recovered_msg_handler, as the simulations configure it: the payload wrapped
\* into a message of the broadcast overlay
RecoveredMsgHandler(payload) == <<"Message">> \o payload

\* the next packet is published on the broadcast overlay
MatchResultAllBroadcast(result) ==
    CASE result.type \in {"SphinxPacket", "bytes"} ->
           <<[overlay |-> "broadcast", msg |-> result.value]>>
      [] OTHER -> << >>

\* the match statement of Node.__process_msg: the publish call it makes, if any
MatchResult(result) ==
    CASE result.type = "SphinxPacket" -> <<[overlay |-> "nomssip", msg |-> result.value]>>
      [] result.type = "bytes" ->
           <<[overlay |-> "broadcast", msg |-> RecoveredMsgHandler(result.value)]>>
      [] OTHER -> << >>

\* Gossip.publish on the broadcast overlay; its handler is broadcasted_msg_handler
BroadcastPublish(st, msg) ==
    IF Seen(st.broadcast.packet_cache, MsgId(msg)) THEN st
    ELSE [st EXCEPT !.broadcast =
            [packet_cache |-> CheckUpdateCache(@.packet_cache, MsgId(msg), TRUE),
             sent |-> Append(@.sent, msg),
             handled |-> Append(@.handled, msg)]]

RECURSIVE ProcessMsg(_, _)
RECURSIVE NomssipPublish(_, _)

\* Nomssip.publish on the NomMix overlay; its handler is Node.__process_msg
NomssipPublish(st, msg) ==
    LET packet == FlaggedPacketBytes(REAL, msg)
    IN  IF ~PublishAccepts(msg) THEN st
        ELSE IF Seen(st.nomssip.packet_cache, MsgId(packet)) THEN st
        ELSE ProcessMsg([st EXCEPT !.nomssip =
                           [packet_cache |-> CheckUpdateCache(@.packet_cache,
                                                              MsgId(packet), TRUE),
                            sent |-> Append(@.sent, packet)]],
                        msg)

\* Node.__process_msg(msg): unwrap, then publish as the result says
ProcessMsg(st, msg) ==
    LET pubs == MatchResult(ProcessSphinxPacket(msg))
    IN  IF pubs = << >> THEN st
        ELSE LET logged == [st EXCEPT !.pubLog = Append(@, pubs[1])]
             IN  IF pubs[1].overlay = "nomssip"
                 THEN NomssipPublish(logged, pubs[1].msg)
                 ELSE BroadcastPublish(logged, pubs[1].msg)

\* the overlays of the node, as one value
NodeState == [nomssip |-> nomssip, broadcast |-> broadcast, pubLog |-> pubLog]

\* the node's overlays become those of st
NodeBecomes(st) ==
    /\ nomssip' = st.nomssip
    /\ broadcast' = st.broadcast
    /\ pubLog' = st.pubLog

\* what SpecNode never changes
NodeFrame ==
    UNCHANGED <<mix_type, skip_sending_noise, conns, packet_cache, task, handled, mixq,
                chan, wire, now, wake, sentAt, gsent, firstFrom, backSent, copies,
                injected, calls, raised, created, orphans, wired, refused, scan, puts,
                gots, last, sends, due, scope,
                linkVars, sessVars, simVars, topo>>

\* a peer's REAL packet with Sphinx packet msg arrives on a connection of the
\* NomMix overlay: the cache, then Nomssip._process_inbound_msg, which gossips
\* the packet and calls the handler
NodeInbound(msg) ==
    /\ delivered.n < MaxDeliver
    /\ LET packet == FlaggedPacketBytes(REAL, msg)
           seen == Seen(nomssip.packet_cache, MsgId(packet))
           cached == [NodeState EXCEPT !.nomssip.packet_cache =
                        CheckUpdateCache(@, MsgId(packet), FALSE)]
           gossiped == [cached EXCEPT !.nomssip.sent = Append(@, packet)]
       IN  /\ NodeBecomes(IF seen THEN cached ELSE ProcessMsg(gossiped, msg))
           /\ delivered' = [n |-> delivered.n + 1, msg |-> msg, handler |-> ~seen]
    /\ NodeFrame

\* Node.send_message: a packet is built for a route and published
NodeSendMessage(msg) ==
    /\ delivered.n < MaxDeliver
    /\ delivered' = [n |-> delivered.n + 1, msg |-> msg,
                     handler |-> ~Seen(nomssip.packet_cache,
                                       MsgId(FlaggedPacketBytes(REAL, msg)))]
    /\ NodeBecomes(NomssipPublish(NodeState, msg))
    /\ NodeFrame

\* a peer's message arrives on a connection of the broadcast overlay
BroadcastInbound(msg) ==
    /\ delivered.n < MaxDeliver
    /\ delivered' = [n |-> delivered.n + 1, msg |-> msg, handler |-> FALSE]
    /\ LET seen == Seen(broadcast.packet_cache, MsgId(msg))
       IN  broadcast' =
             [packet_cache |-> CheckUpdateCache(broadcast.packet_cache, MsgId(msg), FALSE),
              sent |-> IF seen THEN broadcast.sent ELSE Append(broadcast.sent, msg),
              handled |-> IF seen THEN broadcast.handled
                          ELSE Append(broadcast.handled, msg)]
    /\ UNCHANGED <<nomssip, pubLog>>
    /\ NodeFrame

InitNode ==
    /\ mix_type = "NONE"
    /\ skip_sending_noise = FALSE
    /\ conns = [n \in Nodes |-> << >>]
    /\ now = 0 /\ wake = 0 /\ created = 0
    /\ Fresh
    /\ latency = 0

NextNode ==
    \/ \E msg \in SphinxPackets : NodeInbound(msg)
    \/ \E msg \in SphinxPackets : NodeSendMessage(msg)
    \/ \E payload \in 1..NumPayloads : BroadcastInbound(RecoveredMsgHandler(<<payload>>))

SpecNode == InitNode /\ [][NextNode]_vars

-----------------------------------------------------------------------------
(* SpecSession: run_session of queuesim: the iterations are submitted to the  *)
(* process pool and their results collected as they complete                  *)

\* what SpecSession never changes
SessionFrame ==
    UNCHANGED <<mix_type, skip_sending_noise, conns, packet_cache, task, handled, mixq,
                chan, wire, now, wake, sentAt, gsent, firstFrom, backSent, copies,
                injected, calls, raised, created, orphans, wired, refused, scan, puts,
                gots, last, sends, due, scope,
                linkVars, nodeVars, simVars, topo>>

\* run_session(..., from_paramset): the iterations of every parameter set from
\* from_paramset on are submitted to the process pool
RunSession(from) ==
    /\ session = "idle"
    /\ from \in 1..NumParamsets
    /\ from_paramset' = from
    /\ future' = [p \in ParamsetIds |->
                    [i \in Iterations |-> IF p < from THEN "none" ELSE "pending"]]
    /\ session' = "collecting"
    /\ UNCHANGED <<paramset_results, paramsets_done, paramset_processed>>
    /\ SessionFrame

\* a worker process ends __run_iteration: it returns its results, or raises;
\* the workers are not followed once run_session has left its loop
IterationEnds(p, i, outcome) ==
    /\ session = "collecting"
    /\ future[p][i] = "pending"
    /\ future' = [future EXCEPT ![p][i] = outcome]
    /\ UNCHANGED <<paramset_results, paramsets_done, session, from_paramset, paramset_processed>>
    /\ SessionFrame

\* future.result(): the results of the iteration, or its exception raised again
FutureResult(f) == IF f = "returned" THEN "value" ELSE "raise"

\* the times of iteration i of parameter set p are added under another key
ExtendFirst(results, p, i) ==
    [results EXCEPT ![1].times[<<p, i>>] = @ + 1]

\* paramset_results[paramset_id][1].extend(future.result())
Extend(results, p, i) ==
    [results EXCEPT ![p].times[<<p, i>>] = @ + 1]

\* one pass of "for future in as_completed(future_map)" for iteration i of
\* parameter set p: the index is added, future.result() is taken, and the
\* parameter set is processed when all its iterations are in. An exception
\* leaves the loop and run_session.
Collect(p, i) ==
    /\ session = "collecting"
    /\ future[p][i] \in {"returned", "raised"}
    /\ i \notin paramset_results[p].iters
    /\ LET added == [paramset_results EXCEPT ![p].iters = @ \cup {i}]
       IN  IF FutureResult(future[p][i]) = "raise"
           THEN /\ paramset_results' = added
                /\ session' = "raised"
                /\ UNCHANGED <<paramsets_done, paramset_processed>>
           ELSE LET results == Extend(added, p, i)
                IN  /\ paramset_results' = results
                    /\ IF Cardinality(results[p].iters) = NumIterations
                       THEN /\ paramsets_done' = paramsets_done \cup {p}
                            /\ paramset_processed' = [paramset_processed EXCEPT ![p] =
                                    [n |-> @.n + 1, times |-> results[p].times]]
                       ELSE UNCHANGED <<paramsets_done, paramset_processed>>
                    /\ UNCHANGED session
    /\ UNCHANGED <<future, from_paramset>>
    /\ SessionFrame

\* as_completed is exhausted: the session file is sorted, the directory renamed
SessionEnds ==
    /\ session = "collecting"
    /\ \A p \in ParamsetIds : \A i \in Iterations :
          future[p][i] # "none" => i \in paramset_results[p].iters
    /\ session' = "finished"
    /\ UNCHANGED <<future, paramset_results, paramsets_done, from_paramset, paramset_processed>>
    /\ SessionFrame

InitSession ==
    /\ mix_type = "NONE"
    /\ skip_sending_noise = TRUE
    /\ conns = [n \in Nodes |-> << >>]
    /\ now = 0 /\ wake = 0 /\ created = 0
    /\ Fresh
    /\ latency = 0

NextSession ==
    \/ \E from \in 1..NumParamsets : RunSession(from)
    \/ \E p \in ParamsetIds : \E i \in Iterations :
          \E outcome \in {"returned", "raised"} : IterationEnds(p, i, outcome)
    \/ \E p \in ParamsetIds : \E i \in Iterations : Collect(p, i)
    \/ SessionEnds

SpecSession == InitSession /\ [][NextSession]_vars

-----------------------------------------------------------------------------
(* SpecSim: the result loop of one queuesim iteration. Times are the values   *)
(* of Framework.now(), whole milliseconds; a float is kept as its             *)
(* milliseconds and the sign of what a conversion to single precision added.  *)

\* Framework.now()
SimNow == [ms |-> now, err |-> 0]

\* the remainder (in thousandths of the last kept bit) of k / 1000 written in
\* binary and cut after `left` significant bits
RECURSIVE BinaryRest(_, _, _)
BinaryRest(r, started, left) ==
    IF left = 0 \/ r = 0 THEN r
    ELSE LET bit == (2 * r) \div 1000
             rest == (2 * r) % 1000
         IN  IF started \/ bit = 1 THEN BinaryRest(rest, TRUE, left - 1)
             ELSE BinaryRest(rest, FALSE, left)

\* struct.pack("f", x): x rounded to the nearest float of 24 significant bits
Single(x) ==
    LET rest == BinaryRest(x.ms % 1000, x.ms >= 1000, 24)
    IN  [ms |-> x.ms,
         err |-> IF rest = 0 THEN 0 ELSE IF 2 * rest < 1000 THEN -1 ELSE 1]

\* the same with the time kept exactly
Double(x) == x

\* bytes(Message(id, sent_time)): struct.pack("if", id, sent_time)
MessageBytes(id, sent_time) == <<id, Single(sent_time)>>

\* Message.from_bytes
MessageFromBytes(data) == [id |-> data[1], sent_time |-> data[2]]

\* received_time - sent_time
Minus(a, b) == [ms |-> a.ms - b.ms, err |-> a.err - b.err]

\* received_msg_counters[msg]
Counter(c, msg) == IF msg \in DOMAIN c THEN c[msg] ELSE 0

\* received_msg_counters.update([msg])
CounterUpdate(c, msg) ==
    [m \in DOMAIN c \cup {msg} |-> IF m = msg THEN Counter(c, msg) + 1 ELSE c[m]]

\* the test of the result loop with the count of the first receipt
AllReceivedFirst(count) == count = 1

\* received_msg_counters[msg] == len(nodes)
AllReceived(count) == count = NumNodes

\* the messages built so far
SimMsgs == DOMAIN notified

\* what SpecSim never changes
SimFrame ==
    UNCHANGED <<mix_type, skip_sending_noise, conns, packet_cache, task, handled, mixq,
                chan, wire, wake, sentAt, gsent, firstFrom, backSent, copies,
                injected, calls, raised, created, orphans, wired, refused, scan, puts,
                gots, last, sends, due, scope,
                linkVars, nodeVars, sessVars, topo>>

\* the result loop has not collected every message yet
LoopRuns == result_cnt < NumSentMsgs * NumSenders

\* Simulation.__process_msg, the handler of node n, called with msg
ProcessMsgSim(n, msg) ==
    /\ received_msg_queue' = QueuePut(received_msg_queue, <<SimNow, msg>>)
    /\ notified' = [m \in SimMsgs \cup {msg} |->
                      IF m = msg
                      THEN (IF m \in SimMsgs THEN notified[m] ELSE << >>) @@ (n :> now)
                      ELSE notified[m]]

\* Simulation.__run: sender_generator.sample(nodes, k = num_senders), and a
\* __run_sender spawned for each
StartSenders(chosen) ==
    /\ senders = << >>
    /\ Cardinality(chosen) = NumSenders
    /\ senders' = [sender \in chosen |-> [i |-> 0, wake |-> now]]
    /\ UNCHANGED <<now, next_id, received_msg_queue, received_msg_counters, result_cnt,
                   rows, notified>>
    /\ SimFrame

\* __run_sender: the sender builds its next message and publishes it, which
\* calls its own handler; it sleeps msg_interval_sec before every message
\* but the first
SenderSends(sender) ==
    /\ sender \in DOMAIN senders
    /\ senders[sender].i < NumSentMsgs
    /\ senders[sender].wake <= now
    /\ LET msg == MessageBytes(next_id, SimNow)
       IN  /\ ProcessMsgSim(sender, msg)
           /\ next_id' = next_id + 1
           /\ senders' = [senders EXCEPT ![sender] =
                             [i |-> @.i + 1, wake |-> now + MsgInterval]]
    /\ UNCHANGED <<now, received_msg_counters, result_cnt, rows>>
    /\ SimFrame

\* the overlay of node n receives msg for the first time and calls the handler
NodeReceives(n, msg) ==
    /\ msg \in SimMsgs
    /\ n \notin DOMAIN notified[msg]
    /\ ProcessMsgSim(n, msg)
    /\ UNCHANGED <<now, senders, next_id, received_msg_counters, result_cnt, rows>>
    /\ SimFrame

\* one pass of the result loop
ResultLoop ==
    /\ LoopRuns
    /\ received_msg_queue # << >>
    /\ LET got == QueueGet(received_msg_queue)
           received_time == got.msg[1]
           msg == got.msg[2]
           counters == CounterUpdate(received_msg_counters, msg)
       IN  /\ received_msg_queue' = got.queue
           /\ received_msg_counters' = counters
           /\ IF AllReceived(counters[msg])
              THEN LET sent_time == MessageFromBytes(msg).sent_time
                       dissemination_time == Minus(received_time, sent_time)
                   IN  /\ rows' = Append(rows, [msg |-> msg,
                                                dissemination_time |-> dissemination_time,
                                                sent_time |-> sent_time,
                                                all_received_time |-> received_time])
                       /\ result_cnt' = result_cnt + 1
              ELSE UNCHANGED <<rows, result_cnt>>
    /\ UNCHANGED <<now, senders, next_id, notified>>
    /\ SimFrame

\* virtual time moves on once nothing is left to run at this instant
SimAdvance ==
    /\ now < MaxSimTime
    /\ senders # << >>
    /\ ~(LoopRuns /\ received_msg_queue # << >>)
    /\ \A sender \in DOMAIN senders :
          senders[sender].i < NumSentMsgs => senders[sender].wake > now
    /\ now' = now + 1
    /\ UNCHANGED simVars
    /\ SimFrame

InitSim ==
    /\ mix_type = "NONE"
    /\ skip_sending_noise = TRUE
    /\ conns = [n \in Nodes |-> << >>]
    /\ now = 0 /\ wake = 0 /\ created = 0
    /\ Fresh
    /\ latency = 0

NextSim ==
    \/ \E chosen \in SUBSET Nodes \ {{}} : StartSenders(chosen)
    \/ \E sender \in Nodes : SenderSends(sender)
    \/ \E n \in Nodes : \E msg \in SimMsgs : NodeReceives(n, msg)
    \/ ResultLoop
    \/ SimAdvance

SpecSim == InitSim /\ [][NextSim]_vars

-----------------------------------------------------------------------------
(* SpecTopo: build_full_random_topology(rng, num_nodes, peering_degree) *)

\* topology[k] of the defaultdict: the set stored under k, or a new empty one
TopologyGet(topology, k) == IF k \in DOMAIN topology THEN topology[k] ELSE {}

\* dfs(topology, start_node): the nodes reached in at most k further steps
RECURSIVE DfsWithin(_, _, _)
DfsWithin(topology, visited, k) ==
    IF k = 0 THEN visited
    ELSE DfsWithin(topology,
                   visited \cup UNION {TopologyGet(topology, n) : n \in visited}, k - 1)

\* dfs(topology, start_node)
Dfs(topology, start_node) ==
    DfsWithin(topology, {start_node}, Cardinality(DOMAIN topology))

\* a test that takes every topology as connected
AreAllNodesConnectedAny(topology) == TRUE

\* are_all_nodes_connected: next(iter(topology)) is the key stored first, node 0
AreAllNodesConnected(topology) ==
    Cardinality(Dfs(topology, 0)) = Cardinality(DOMAIN topology)

\* the nodes the current node can still be connected to
Others(topology, node, num_nodes, peering_degree) ==
    {other \in (0..(num_nodes - 1)) \ {node} :
        /\ other \notin TopologyGet(topology, node)
        /\ Cardinality(TopologyGet(topology, other)) < peering_degree}

\* the keys the pass for node reads, which the defaultdict stores
Touched(topology, node, num_nodes) ==
    {node} \cup {other \in (0..(num_nodes - 1)) \ {node} :
                    other \notin TopologyGet(topology, node)}

\* what SpecTopo never changes
TopoFrame ==
    UNCHANGED <<mix_type, skip_sending_noise, conns, packet_cache, task, handled, mixq,
                chan, wire, now, wake, sentAt, gsent, firstFrom, backSent, copies,
                injected, calls, raised, created, orphans, wired, refused, scan, puts,
                gots, last, sends, due, scope,
                linkVars, nodeVars, sessVars, simVars>>

\* the call, with its arguments
TopoCall(num_nodes, peering_degree) ==
    /\ topo.num_nodes = 0
    /\ topo' = [topo EXCEPT !.num_nodes = num_nodes, !.peering_degree = peering_degree]
    /\ TopoFrame

\* one pass of "for node in nodes": the node is connected to a sample of the
\* nodes it can be connected to, as many as it needs or as there are
TopoConnect(peers) ==
    /\ topo.num_nodes > 0
    /\ ~topo.returned
    /\ topo.node < topo.num_nodes
    /\ LET node == topo.node
           topology == topo.topology
           others == Others(topology, node, topo.num_nodes, topo.peering_degree)
           n_needs == topo.peering_degree - Cardinality(TopologyGet(topology, node))
           k == IF n_needs < Cardinality(others) THEN n_needs ELSE Cardinality(others)
       IN  /\ peers \subseteq others
           /\ Cardinality(peers) = k
           /\ topo' = [topo EXCEPT
                 !.node = node + 1,
                 !.topology =
                     [n \in DOMAIN topology \cup Touched(topology, node, topo.num_nodes) |->
                         IF n = node THEN TopologyGet(topology, n) \cup peers
                         ELSE IF n \in peers THEN TopologyGet(topology, n) \cup {node}
                         ELSE TopologyGet(topology, n)]]
    /\ TopoFrame

\* after the passes: the topology is returned if it is connected, and built
\* anew if it is not
TopoCheck ==
    /\ topo.num_nodes > 0
    /\ ~topo.returned
    /\ topo.node = topo.num_nodes
    /\ IF AreAllNodesConnected(topo.topology)
       THEN topo' = [topo EXCEPT !.returned = TRUE]
       ELSE topo' = [topo EXCEPT !.topology = << >>, !.node = 0, !.rebuilt = TRUE]
    /\ TopoFrame

InitTopo ==
    /\ mix_type = "NONE"
    /\ skip_sending_noise = TRUE
    /\ conns = [n \in Nodes |-> << >>]
    /\ now = 0 /\ wake = 0 /\ created = 0
    /\ Fresh
    /\ latency = 0

NextTopo ==
    \/ \E num_nodes \in 1..MaxTopoNodes : \E peering_degree \in 0..PeeringDegree :
          TopoCall(num_nodes, peering_degree)
    \/ \E peers \in SUBSET (0..(MaxTopoNodes - 1)) : TopoConnect(peers)
    \/ TopoCheck

SpecTopo == InitTopo /\ [][NextTopo]_vars

\* rng.sample(others, k = min(n_needs, len(others))): the samples it can give
Samples(topology, node, num_nodes, peering_degree) ==
    LET others == Others(topology, node, num_nodes, peering_degree)
        n_needs == peering_degree - Cardinality(TopologyGet(topology, node))
        k == IF n_needs < Cardinality(others) THEN n_needs ELSE Cardinality(others)
    IN  {peers \in SUBSET others : Cardinality(peers) = k}

\* the topology after the pass for node has connected it to peers
TopologyUpdate(topology, node, num_nodes, peers) ==
    [n \in DOMAIN topology \cup Touched(topology, node, num_nodes) |->
        IF n = node THEN TopologyGet(topology, n) \cup peers
        ELSE IF n \in peers THEN TopologyGet(topology, n) \cup {node}
        ELSE TopologyGet(topology, n)]

\* some samples of the passes that are left make the topology connected
RECURSIVE CanConnect(_, _, _, _)
CanConnect(topology, node, num_nodes, peering_degree) ==
    IF node = num_nodes THEN AreAllNodesConnected(topology)
    ELSE \E next \in {TopologyUpdate(topology, node, num_nodes, peers) :
                         peers \in Samples(topology, node, num_nodes, peering_degree)} :
            CanConnect(next, node + 1, num_nodes, peering_degree)

\* the pass for node, with a sample after which the topology can still become
\* connected
TopoConnectTowards(node) ==
    /\ topo.node = node
    /\ node < topo.num_nodes
    /\ \E peers \in Samples(topo.topology, node, topo.num_nodes, topo.peering_degree) :
          /\ \E next \in {TopologyUpdate(topo.topology, node, topo.num_nodes, peers)} :
                CanConnect(next, node + 1, topo.num_nodes, topo.peering_degree)
          /\ TopoConnect(peers)

\* the call with a fair rng: the loop goes on, and a sample that rng.sample can
\* give at a pass reached again and again is given there in the end
SpecTopoFair ==
    /\ InitTopo
    /\ [][NextTopo]_vars
    /\ WF_vars(NextTopo)
    /\ \A node \in 0..(MaxTopoNodes - 1) : SF_vars(TopoConnectTowards(node))

-----------------------------------------------------------------------------
(* SpecWire: Simulation.__connect_nodes of queuesim: a topology is built and the *)
(* nodes are wired along it, every overlay with the peering_degree the topology *)
(* was built for                                                                *)

\* both nodes of a pair establish the connection
SkipsNone(node_idx, peer_idx) == FALSE

\* if node_idx > peer_idx: continue
Skips(node_idx, peer_idx) == node_idx > peer_idx

\* how often connect was called for a pair
Connects(connected, pair) == IF pair \in DOMAIN connected THEN connected[pair] ELSE 0

\* Node.connect, which is connect_nodes on the two overlays: the check of both,
\* then the two add_conn calls, each of which checks its own overlay again
WireConnect(w, node_idx, peer_idx) ==
    LET can(lens, n) == lens[n] < w.peering_degree
        called == [w EXCEPT !.connected =
                     [e \in DOMAIN @ \cup {<<node_idx, peer_idx>>} |->
                        IF e = <<node_idx, peer_idx>> THEN Connects(@, e) + 1 ELSE @[e]]]
        first == [called.conns EXCEPT ![node_idx] = @ + 1]
    IN  IF ~can(w.conns, node_idx) \/ ~can(w.conns, peer_idx)
        THEN [called EXCEPT !.raised = TRUE]
        ELSE IF ~can(first, peer_idx)
             THEN [called EXCEPT !.conns = first, !.raised = TRUE]
             ELSE [called EXCEPT !.conns = [first EXCEPT ![peer_idx] = @ + 1]]

\* the entries of the sorted topology before those of node_idx have been visited
VisitedBefore(node_idx) ==
    \A p \in DOMAIN topo.topology : \A q \in topo.topology[p] :
        p < node_idx => <<p, q>> \in topo.visited

\* one pass of the inner loop of __connect_nodes, for peer_idx in the entry of
\* node_idx: the assertion, the rule, and the connect call
WireVisit(node_idx, peer_idx) ==
    /\ topo.returned
    /\ ~topo.raised
    /\ node_idx \in DOMAIN topo.topology
    /\ peer_idx \in topo.topology[node_idx]
    /\ <<node_idx, peer_idx>> \notin topo.visited
    /\ VisitedBefore(node_idx)
    /\ LET visited == [topo EXCEPT !.visited = @ \cup {<<node_idx, peer_idx>>}]
       IN  topo' = IF node_idx = peer_idx THEN [visited EXCEPT !.raised = TRUE]
                   ELSE IF Skips(node_idx, peer_idx) THEN visited
                   ELSE WireConnect(visited, node_idx, peer_idx)
    /\ TopoFrame

NextWire ==
    \/ NextTopo
    \/ \E node_idx, peer_idx \in 0..(MaxTopoNodes - 1) : WireVisit(node_idx, peer_idx)

SpecWire == InitTopo /\ [][NextWire]_vars

-----------------------------------------------------------------------------
(* SpecRun: Simulation.run of queuesim, from its start to the exit of its     *)
(* scope, over a network of Nomssip overlays on a connected topology. Virtual *)
(* time is left out: the sleeps of the senders and emitters end.              *)

\* the connected networks over all the nodes: a line, and a ring; the node with
\* the smaller index comes first in every edge
RunTopologies ==
    {[k \in 1..(NumNodes - 1) |-> <<k, k + 1>>],
     [k \in 1..NumNodes |-> IF k < NumNodes THEN <<k, k + 1>> ELSE <<1, NumNodes>>]}

\* Config.num_sent_msgs of DEFAULT_CONFIG
RunSentMsgs == 1

\* the result loop has not collected every message yet
RunLoopRuns == result_cnt < RunSentMsgs * NumSenders

\* the activities of an iteration: Gossip.__process_inbound_conn of conns[n][i],
\* MixSimplexConnection.__run of the pipeline over s, __run_sender of node n
InboundTask(n, i) == [kind |-> "inbound", n |-> n, i |-> i]
EmitterTask(s) == [kind |-> "emitter", n |-> s, i |-> 0]
SenderTask(n) == [kind |-> "sender", n |-> n, i |-> 0]

\* the activities that wiring the network cs has spawned
WiringTasks(cs) ==
    LET ends == {c \in Nodes \X (1..PeeringDegree) : c[2] <= Len(cs[c[1]])}
    IN  {InboundTask(c[1], c[2]) : c \in ends}
           \cup {EmitterTask(cs[c[1]][c[2]].outbound) : c \in ends}

\* Framework.spawn: scope.do(coroutine), and the task appended to _tasks
Spawn(sc, started) ==
    [sc EXCEPT !.children = @ \cup started, !.tasks = @ \cup started]

\* stop_tasks cancels the senders only
StopTasksSenders(tasks) == {t \in tasks : t.kind = "sender"}

\* Framework.stop_tasks: task.cancel() for every task of _tasks
StopTasks(tasks) == tasks

\* an activity that was started and is not cancelled
Running(t) == t \in scope.children \ scope.cancelled

\* bytes(Message(id, sent_time)) of the run, filled to msg_size; the sent time
\* is kept in whole milliseconds
RunMessageBytes(id, sent_time) == <<id, sent_time>> \o Bytes(MsgSize - 2, 0)

\* Message.from_bytes of the run
RunMessageFromBytes(data) == [id |-> data[1], sent_time |-> [ms |-> data[2], err |-> 0]]

\* the handler Simulation.__process_msg, for the call that a step of overlay n
\* has made, if it has made one
HandlerCalls(n) ==
    IF Len(handled'[n]) > Len(handled[n])
    THEN ProcessMsgSim(n, handled'[n][Len(handled'[n])])
    ELSE UNCHANGED <<received_msg_queue, notified>>

\* what no step of SpecRun changes
RunFrame == UNCHANGED <<due, linkVars, nodeVars, sessVars, topo>>

\* what the steps of Simulation.run itself leave alone
RunNetFrame ==
    UNCHANGED <<mix_type, skip_sending_noise, packet_cache, task, handled, mixq,
                chan, wire, now, wake, sentAt, gsent, firstFrom, backSent, copies,
                injected, calls, raised, created, orphans, wired, refused, scan, puts,
                gots, last, sends>>

\* Simulation.__run up to its result loop: the nodes are wired along topology t,
\* which spawns an inbound processor and an emitter for every connection end,
\* and a __run_sender is spawned for each of the chosen senders
RunStarts(t, chosen) ==
    /\ scope.pc = "idle"
    /\ Cardinality(chosen) = NumSenders
    /\ conns' = Wire(t, Len(t))
    /\ senders' = [sender \in chosen |-> [i |-> 0, wake |-> now]]
    /\ scope' = [Spawn(scope, WiringTasks(conns') \cup {SenderTask(n) : n \in chosen})
                   EXCEPT !.pc = "loop"]
    /\ UNCHANGED <<next_id, received_msg_queue, received_msg_counters, result_cnt,
                   rows, notified>>
    /\ RunNetFrame
    /\ RunFrame

\* __run_sender: the sender builds its next message and publishes it
RunSender(sender) ==
    /\ sender \in DOMAIN senders
    /\ Running(SenderTask(sender))
    /\ senders[sender].i < RunSentMsgs
    /\ PublishCall(sender, RunMessageBytes(next_id, now))
    /\ HandlerCalls(sender)
    /\ next_id' = next_id + 1
    /\ senders' = [senders EXCEPT ![sender] = [i |-> @.i + 1, wake |-> now]]
    /\ UNCHANGED <<received_msg_counters, result_cnt, rows, scope>>
    /\ RunFrame

\* a turn of the inbound processor of conns[n][i]
RunInbound(n, i) ==
    /\ Running(InboundTask(n, i))
    /\ ProcessInboundConn(n, i)
    /\ HandlerCalls(n)
    /\ UNCHANGED <<senders, next_id, received_msg_counters, result_cnt, rows, scope>>
    /\ RunFrame

\* a turn of the emitter of the pipeline over s
RunEmitter(s) ==
    /\ Running(EmitterTask(s))
    /\ EmitterTurn(s)
    /\ UNCHANGED <<simVars, scope>>
    /\ RunFrame

\* one pass of the result loop of Simulation.__run
RunResultLoop ==
    /\ scope.pc = "loop"
    /\ RunLoopRuns
    /\ received_msg_queue # << >>
    /\ LET got == QueueGet(received_msg_queue)
           received_time == got.msg[1]
           msg == got.msg[2]
           counters == CounterUpdate(received_msg_counters, msg)
       IN  /\ received_msg_queue' = got.queue
           /\ received_msg_counters' = counters
           /\ IF AllReceived(counters[msg])
              THEN LET sent_time == RunMessageFromBytes(msg).sent_time
                       dissemination_time == Minus(received_time, sent_time)
                   IN  /\ rows' = Append(rows, [msg |-> msg,
                                                dissemination_time |-> dissemination_time,
                                                sent_time |-> sent_time,
                                                all_received_time |-> received_time])
                       /\ result_cnt' = result_cnt + 1
              ELSE UNCHANGED <<rows, result_cnt>>
    /\ UNCHANGED <<senders, next_id, notified, scope, conns>>
    /\ RunNetFrame
    /\ RunFrame

\* Simulation.run after __run has returned: framework.stop_tasks()
RunStopTasks ==
    /\ scope.pc = "loop"
    /\ ~RunLoopRuns
    /\ scope' = [scope EXCEPT !.pc = "stopped", !.cancelled = @ \cup StopTasks(scope.tasks)]
    /\ UNCHANGED <<simVars, conns>>
    /\ RunNetFrame
    /\ RunFrame

\* an activity of the scope that has ended: it was cancelled, or it is a sender
\* that has sent its last message
TaskDone(t) ==
    \/ t \in scope.cancelled
    \/ t.kind = "sender" /\ senders[t.n].i = RunSentMsgs

\* the end of `async with usim.Scope()`: the scope waits for its activities
ScopeExits ==
    /\ scope.pc = "stopped"
    /\ \A t \in scope.children : TaskDone(t)
    /\ scope' = [scope EXCEPT !.pc = "exited"]
    /\ UNCHANGED <<simVars, conns>>
    /\ RunNetFrame
    /\ RunFrame

InitRun ==
    /\ mix_type \in NetMixTypes
    /\ skip_sending_noise = TRUE
    /\ conns = [n \in Nodes |-> << >>]
    /\ now = 0 /\ wake = 0 /\ created = 0
    /\ Fresh
    /\ latency = 0

NextRun ==
    \/ \E t \in RunTopologies : \E chosen \in SUBSET Nodes \ {{}} : RunStarts(t, chosen)
    \/ \E sender \in Nodes : RunSender(sender)
    \/ \E n \in Nodes : \E i \in 1..PeeringDegree : RunInbound(n, i)
    \/ \E s \in Simplexes : RunEmitter(s)
    \/ RunResultLoop
    \/ RunStopTasks
    \/ ScopeExits

\* the framework runs an activity that can run, and a coin that is flipped again
\* and again shows heads in the end
SpecRun == InitRun /\ [][NextRun]_vars /\ WF_vars(NextRun)

-----------------------------------------------------------------------------
(* Properties *)

\* the number of whole periods since the pipeline was created
Elapsed == (now - created) \div Period

\* C1 (SpecMix). GTR: without skip_sending_noise the emitter has, at every moment,
\* sent exactly one message at each time created + k * Period (k = 1, 2, ...) that
\* has been reached, and none at any other time, whatever was passed to send().
C1_GTR ==
    ~skip_sending_noise =>
        /\ \A k \in 1..Len(sentAt) : sentAt[k].t = created + k * Period
        /\ Len(sentAt) = IF now = wake THEN Elapsed - 1 ELSE Elapsed

\* three periods have passed; noise and a real message have been sent
C1_Witness ==
    /\ ~skip_sending_noise
    /\ Len(sentAt) >= 3
    /\ \E j, k \in 1..Len(sentAt) :
          sentAt[j].msg = NoisePacket /\ sentAt[k].msg \in RealPackets

\* the frames of a sequence
Frames(q) == {q[k] : k \in 1..Len(q)}

\* every frame an overlay has enqueued to, or emitted on, a mix link
MixLinkFrames ==
    UNION {Frames(mixq[s]) : s \in Simplexes}
        \cup UNION {Frames(chan[s]) : s \in Pipelines}
        \cup wire

\* C2 (SpecEnv). Every packet that an overlay enqueues to or emits on a mix link
\* (noise, a published packet, a forwarded inbound REAL packet) is 1 + msg_size
\* bytes long, whatever frames its peers send.
C2_FrameSize == \A f \in MixLinkFrames : Len(f) = 1 + MsgSize

\* noise and a forwarded packet (received, never published here) have been emitted
C2_Witness ==
    /\ NoisePacket \in wire
    /\ \E p \in RealPackets :
          p \in wire /\ firstFrom[1][p] # 0 /\ copies[1][p] = -1

\* C4 (SpecEnv). The counting rule of the duplicate cache: publishing a message
\* not in the cache stores it with count 0; an inbound message not in the cache is
\* stored with count 1; an inbound message in the cache has its count raised by
\* one and is removed when the count reaches peering_degree. So a publisher's
\* entry counts the copies that came back, and is removed after exactly
\* peering_degree of them.
C4_CountingRule ==
    [][/\ \A msg \in Payloads :
            LET pid == MsgId(FlaggedPacketBytes(REAL, msg))
            IN  Publish(1, msg) /\ pid \notin DOMAIN packet_cache[1]
                    => /\ pid \in DOMAIN packet_cache'[1]
                       /\ packet_cache'[1][pid] = 0
        /\ \A i \in ConnIdx(1) :
            Inbound(1, i) =>
                LET id == MsgId(Head(chan[conns[1][i].inbound]))
                IN  IF id \notin DOMAIN packet_cache[1]
                    THEN id \in DOMAIN packet_cache'[1] /\ packet_cache'[1][id] = 1
                    ELSE IF packet_cache[1][id] + 1 >= PeeringDegree
                         THEN id \notin DOMAIN packet_cache'[1]
                         ELSE /\ id \in DOMAIN packet_cache'[1]
                              /\ packet_cache'[1][id] = packet_cache[1][id] + 1
        /\ \A p \in RealPackets :
            /\ copies'[1][p] \in 0..(PeeringDegree - 1)
                  => /\ MsgId(p) \in DOMAIN packet_cache'[1]
                     /\ packet_cache'[1][MsgId(p)] = copies'[1][p]
            /\ copies'[1][p] = PeeringDegree => MsgId(p) \notin DOMAIN packet_cache'[1]
      ]_vars

\* a publisher's entry is gone after exactly peering_degree copies came back
C4_Witness ==
    \E p \in RealPackets :
        copies[1][p] = PeeringDegree /\ MsgId(p) \notin DOMAIN packet_cache[1]

\* C10 (Spec). publish(msg) with a payload whose length is not msg_size raises
\* before the cache, any transmit queue or the handler is touched: the call has
\* no effect on the overlay.
C10_PublishSizeAssert ==
    [][\A n \in Nodes : \A msg \in BadPayloads :
          Publish(n, msg) =>
              /\ raised' = raised + 1
              /\ UNCHANGED <<packet_cache, mixq, chan, handled, task>>
      ]_vars

\* a publish of a wrong-sized payload was refused after one was accepted
C10_Witness ==
    /\ raised > 0
    /\ \E n \in Nodes : handled[n] # << >>

\* C3 (Spec). At-most-once gossip: an overlay sends a given message at most once
\* on each of its connections, and never on the connection from which it first
\* received the message.
C3_AtMostOnce ==
    /\ \A n \in Nodes : \A i \in ConnIdx(n) : \A p \in RealPackets : gsent[n][i][p] <= 1
    /\ backSent = {}

\* C5 (Spec). Publisher suppression: a copy of a message that comes back to an
\* overlay that published it is never re-gossiped and never handed to the
\* handler again.
C5_PublisherSuppression ==
    [][\A n \in Nodes : \A i \in ConnIdx(n) :
          (/\ Inbound(n, i)
           /\ Head(chan[conns[n][i].inbound]) \in RealPackets
           /\ copies[n][Head(chan[conns[n][i].inbound])] >= 0)
              => UNCHANGED <<mixq, handled>>
      ]_vars

\* C6 (Spec). publish(m) on an overlay that has already published or received m
\* is a no-op: nothing is gossiped, the handler is not called and the cache
\* entry is not changed.
C6_RepublishNoOp ==
    [][\A n \in Nodes : \A msg \in Payloads :
          (/\ Publish(n, msg)
           /\ \/ copies[n][FlaggedPacketBytes(REAL, msg)] >= 0
              \/ firstFrom[n][FlaggedPacketBytes(REAL, msg)] # 0)
              => UNCHANGED <<mixq, handled, packet_cache>>
      ]_vars

\* the real packets that are in a transmit queue or on a connection
InFlight ==
    {p \in RealPackets : \E s \in Simplexes : p \in Frames(mixq[s]) \cup Frames(chan[s])}

\* C7 (Spec). Cache bound: an overlay's duplicate cache never holds more entries
\* than there are messages in flight.
C7_CacheBound ==
    \A n \in Nodes : Cardinality(DOMAIN packet_cache[n]) <= Cardinality(InFlight)

\* C8 (SpecEnv). An inbound NOISE packet is dropped: it is not gossiped, not
\* handed to the handler, and the duplicate cache is left as it was.
C8_NoiseDropped ==
    [][\A i \in ConnIdx(1) :
          (Inbound(1, i) /\ Head(chan[conns[1][i].inbound]) = NoisePacket)
              => UNCHANGED <<mixq, handled, packet_cache>>
      ]_vars

\* the frames whose first byte is neither REAL nor NOISE
UnknownFlagFrames == {f \in PeerFrames : Len(f) >= 1 /\ f[1] \notin {REAL, NOISE}}

\* C9 (SpecEnv). An inbound frame with an unknown flag is rejected as a
\* recoverable error: nothing is gossiped or handled, and the connection's
\* inbound task goes on running.
C9_UnknownFlagRecoverable ==
    [][\A i \in ConnIdx(1) :
          (Inbound(1, i) /\ Head(chan[conns[1][i].inbound]) \in UnknownFlagFrames)
              => /\ UNCHANGED <<mixq, handled>>
                 /\ task'[1][i] = "running"
      ]_vars

\* C11 (SpecConn). Peering-degree limit: an overlay never holds more than
\* peering_degree connections; add_conn on an overlay that holds peering_degree
\* connections raises PeeringDegreeReached and leaves the connections and their
\* inbound activities as they were; and only add_conn (called directly or by
\* connect_nodes) changes the list of connections.
C11_PeeringDegreeLimit ==
    [][/\ \A n \in Nodes : Len(conns'[n]) <= PeeringDegree
       /\ \A n \in Nodes :
            (AddConnCall(n) /\ Len(conns[n]) >= PeeringDegree)
                => /\ refused' = refused + 1
                   /\ UNCHANGED <<conns, task>>
       /\ conns' # conns =>
            \/ \E n \in Nodes : AddConnCall(n)
            \/ \E a, b \in Nodes : ConnectNodesCall(a, b)
      ]_vars

\* a full overlay has refused a connection, and a message was published after that
C11_Witness ==
    /\ refused > 0
    /\ \E n \in Nodes : Len(conns[n]) = PeeringDegree /\ handled[n] # << >>

\* C12 (SpecConn). A refused add_conn starts nothing: no emitter activity exists
\* for the outbound connection of an add_conn call that raised
\* PeeringDegreeReached.
C12_RefusedStartsNothing == \A s \in orphans : s \notin Pipelines

\* the connections overlay n gained in a step
Gained(n) == Len(conns'[n]) - Len(conns[n])

\* C13 (SpecConn). connect_nodes is all-or-nothing, the two overlays being the
\* same one or not: either each side gains exactly one connection, the outbound
\* of each being the inbound of the other, or PeeringDegreeReached is raised and
\* no list of connections has changed.
C13_ConnectAllOrNothing ==
    [][\A a, b \in Nodes :
          ConnectNodesCall(a, b) =>
              \/ /\ refused' = refused
                 /\ Gained(a) = (IF a = b THEN 2 ELSE 1)
                 /\ Gained(b) = (IF a = b THEN 2 ELSE 1)
                 /\ LET ca == conns'[a][Len(conns'[a]) - (IF a = b THEN 1 ELSE 0)]
                        cb == conns'[b][Len(conns'[b])]
                    IN  ca.outbound = cb.inbound /\ cb.outbound = ca.inbound
              \/ /\ refused' = refused + 1
                 /\ conns' = conns
      ]_vars

\* the overlays that read a connection on which overlay n sends
Peers(n) == {r[1] : r \in UNION {Reader(conns[n][i].outbound) : i \in ConnIdx(n)}}

\* the overlays joined to the overlays of S by at most k connections
RECURSIVE Within(_, _)
Within(S, k) == IF k = 0 THEN S ELSE Within(S \cup UNION {Peers(n) : n \in S}, k - 1)

\* the part of the network that overlay n is connected to
Component(n) == Within({n}, NumNodes)

\* every message published so far has been passed to the handler of every
\* overlay connected to its publisher
Disseminated ==
    \A n \in Nodes : \A msg \in Payloads :
        copies[n][FlaggedPacketBytes(REAL, msg)] >= 0
            => \A k \in Component(n) : msg \in Frames(handled[k])

\* C14 (SpecLive). Dissemination completion: a message published by an overlay is
\* in the end passed to the handler of every overlay connected to it, so on a
\* connected topology to the handler of every overlay, the publisher included.
\* (What was published stays published and what was handled stays handled, so
\* "published leads to handled by all" is "again and again, all that was
\* published has been handled by all".)
C14_Dissemination == []<>Disseminated

\* on a connected topology a message has reached the handler of every overlay
C14_Witness ==
    /\ Component(1) = Nodes
    /\ \E msg \in Payloads : \A k \in Nodes : msg \in Frames(handled[k])

\* how many times d occurs in the sequence q
Count(q, d) == Cardinality({k \in 1..Len(q) : q[k] = d})

\* C16 (SpecQueue). Temporal-mix conservation: in every discipline, whatever the
\* order of puts and gets, what get returns is the noise sentinel or a message
\* that was put and not yet returned: every message put is in the buffer or has
\* been returned, once.
C16_Conservation ==
    /\ \A d \in QueueData : Count(puts, d) = Count(gots, d) + Count(mixq[1], d)
    /\ last.msg \in {<< >>, NoisePacket} \cup Frames(puts)

\* a discipline that shuffles has returned messages in another order than put
C16_Witness ==
    /\ mix_type = "PERMUTED_COIN_FLIPPING"
    /\ Len(gots) = MaxPuts
    /\ gots # puts

\* C18 (SpecQueue). The NONE discipline is FIFO with noise on empty: get returns
\* the noise sentinel exactly when the queue holds no message, and otherwise the
\* oldest message not yet returned.
C18_NoneFifo ==
    [][mix_type = "NONE" =>
          /\ QGetNone =>
                IF mixq[1] = << >>
                THEN last'.msg = NoisePacket /\ mixq'[1] = << >>
                ELSE last'.msg = Head(mixq[1]) /\ mixq'[1] = Tail(mixq[1])
          /\ gots' \o mixq'[1] = puts'
      ]_vars

\* two different messages were put and returned, then noise
C18_Witness ==
    /\ mix_type = "NONE"
    /\ Len(gots) = MaxPuts
    /\ gots[1] # gots[2]
    /\ last.msg = NoisePacket

\* C19 (SpecQueue). Minimum pool size: in PURE_COIN_FLIPPING, PURE_RANDOM_SAMPLING
\* and PERMUTED_COIN_FLIPPING the buffer holds at least min_queue_size elements
\* whenever get selects: during the scan, and at the draw of the index.
C19_MinPoolSize ==
    mix_type \in MinSizeTypes =>
        /\ scan >= 1 => Len(mixq[1]) >= MinQueueSize
        /\ last.msg # << >> => last.among >= MinQueueSize

\* a get on an empty queue has selected among the padding only
C19_Witness ==
    /\ mix_type \in MinSizeTypes
    /\ puts = << >>
    /\ last.msg = NoisePacket
    /\ last.among = MinQueueSize

\* C20 (SpecQueue). The selection rule of NOISY_COIN_FLIPPING: get on an empty
\* buffer returns noise; otherwise the coin at the first position decides: on 1
\* the first element is removed and returned, on 0 noise is returned at once and
\* the buffer is left as it is, so the scan never gets past the first position;
\* the buffer is never padded.
C20_NoisyRule ==
    [][mix_type = "NOISY_COIN_FLIPPING" =>
          /\ (QStart /\ mixq[1] = << >>)
                => last'.msg = NoisePacket /\ scan' = 0 /\ mixq'[1] = << >>
          /\ QFlip(1)
                => /\ last'.msg = mixq[1][scan] /\ mixq'[1] = Pop(mixq[1], scan)
                   /\ scan' = 0
          /\ (QFlip(0) /\ scan = 1)
                => last'.msg = NoisePacket /\ scan' = 0 /\ mixq'[1] = mixq[1]
          /\ scan' <= 1
          /\ NoisePacket \notin Frames(mixq'[1])
      ]_vars

\* noise was returned while a message was waiting, which was returned later
C20_Witness ==
    /\ mix_type = "NOISY_COIN_FLIPPING"
    /\ last.msg = NoisePacket /\ last.among > 0
    /\ gots # << >>

\* C15 (SpecQueueRun). In every discipline get returns a message without waiting
\* for a put: a get can always be called, on an empty queue too; its scan always
\* has an element to flip a coin at; and the scan ends, the coin not coming up 0
\* for ever.
C15_GetReturns ==
    /\ [](scan = 0 => ENABLED QGet)
    /\ [](scan >= 1 => scan <= Len(mixq[1]))
    /\ (scan >= 1) ~> (scan = 0)

\* a get of a scanning discipline on a queue nothing was put into has returned
C15_Witness ==
    /\ mix_type = "PERMUTED_COIN_FLIPPING"
    /\ puts = << >>
    /\ scan = 0
    /\ last.msg = NoisePacket

\* every message put so far has been returned
Released == \A d \in QueueData : Count(gots, d) = Count(puts, d)

SingleSend ==
    \E p \in RealPackets :
        sends.n[p] = 1 /\ \A q \in RealPackets \ {p} : sends.n[q] = 0

\* every real message the emitter has sent was sent after a noise frame
NoiseFirst ==
    \A k \in 1..Len(sentAt) :
        sentAt[k].msg \in RealPackets
            => \E j \in 1..(k - 1) : sentAt[j].msg = NoisePacket

\* C21 (SpecMix), as claimed. With PURE_COIN_FLIPPING, when a single real message
\* is passed to send(), the emitter sends at least one NOISE frame before it sends
\* the real message, whatever the coins.
C21_NoiseBeforeReal ==
    (mix_type = "PURE_COIN_FLIPPING" /\ SingleSend) => NoiseFirst

\* C21 (SpecMix), amended. With PURE_COIN_FLIPPING and noise not skipped, a
\* single real message that is passed to send() after the emitter's first turn
\* is sent after at least one NOISE frame, whatever the coins. (Passed before the
\* first turn, it is at the front of the padded buffer and a first coin of 1
\* makes it the first frame.)
C21_NoiseBeforeRealAfterFirstTurn ==
    (/\ mix_type = "PURE_COIN_FLIPPING"
     /\ ~skip_sending_noise
     /\ SingleSend
     /\ sends.first >= 1) => NoiseFirst

\* the message was passed after the first turn, waited in the buffer while
\* padding noise was chosen, and was sent then
C21_Witness ==
    /\ mix_type = "PURE_COIN_FLIPPING"
    /\ ~skip_sending_noise
    /\ SingleSend
    /\ sends.first = 1
    /\ Len(sentAt) >= 3
    /\ sentAt[3].msg \in RealPackets

\* the messages of a sequence of (time, message) records
Data(q) == [k \in 1..Len(q) |-> q[k].data]

\* the message the relayer holds during its sleep
Held == IF relayer.pc = "sleep" THEN <<relayer.data>> ELSE << >>

\* C22 (SpecLink). Per-direction FIFO: on a LocalSimplexConnection and on a
\* RemoteSimplexConnection the messages are received in the order in which they
\* were sent, none lost and none duplicated, however sender, relayer and
\* receiver interleave: what was received, followed by what is on its way, is
\* what was sent.
C22_Fifo ==
    /\ recvLog["local"] \o chan[1] = sentLog["local"]
    /\ recvLog["remote"] \o recv_queue \o Held \o Data(send_queue)
          = Data(sentLog["remote"])

\* every message was received on both connections, on the remote one with a
\* latency and the second message sent during the relayer's sleep
C22_Witness ==
    /\ Len(recvLog["local"]) = MaxSent
    /\ Len(recvLog["remote"]) = MaxSent
    /\ latency > 1
    /\ sentLog["remote"][2].t > sentLog["remote"][1].t
    /\ sentLog["remote"][2].t < relayLog[1].t

\* C23 (SpecLink). Constant latency: a message sent on a RemoteSimplexConnection
\* at time t is put to recv_queue at exactly t + latency, never earlier and never
\* later, also when several messages are sent at the same time and when a
\* message is sent during the relayer's sleep for an earlier one.
C23_ConstantLatency ==
    /\ Len(relayLog) <= Len(sentLog["remote"])
    /\ \A k \in 1..Len(relayLog) :
          /\ relayLog[k].data = sentLog["remote"][k].data
          /\ relayLog[k].t = sentLog["remote"][k].t + latency
    /\ \A k \in 1..Len(sentLog["remote"]) :
          sentLog["remote"][k].t + latency < now => k <= Len(relayLog)

\* a message sent during the relayer's sleep for an earlier one was relayed
C23_Witness ==
    /\ latency > 1
    /\ Len(relayLog) = 2
    /\ sentLog["remote"][2].t > sentLog["remote"][1].t
    /\ sentLog["remote"][2].t < relayLog[1].t

\* two messages sent at the same time were relayed
SentTogetherRelayed ==
    /\ latency > 0
    /\ Len(relayLog) = 2
    /\ sentLog["remote"][2].t = sentLog["remote"][1].t

\* the step hands a Sphinx packet to Node.__process_msg: it arrives from a peer,
\* or is published by send_message, and the NomMix overlay has not seen it
Dispatched == delivered'.n # delivered.n /\ delivered'.handler

\* the publish calls of the step
NewPubs == SubSeq(pubLog', Len(pubLog) + 1, Len(pubLog'))

\* C24 (SpecNode), as claimed. Dispatch of a delivered mix packet: on
\* Forward(next) the node publishes next on its NomMix overlay and nothing on the
\* broadcast overlay; on Final(payload) it publishes
\* recovered_msg_handler(payload) on the broadcast overlay and nothing more on
\* the NomMix overlay; on a packet it cannot unwrap it publishes nothing.
C24_Dispatch ==
    [][Dispatched =>
              LET result == ProcessSphinxPacket(delivered'.msg)
              IN  CASE result.type = "SphinxPacket" ->
                         /\ NewPubs = <<[overlay |-> "nomssip", msg |-> result.value]>>
                         /\ broadcast' = broadcast
                    [] result.type = "bytes" ->
                         NewPubs = <<[overlay |-> "broadcast",
                                      msg |-> RecoveredMsgHandler(result.value)]>>
                    [] OTHER ->
                         NewPubs = << >> /\ broadcast' = broadcast
      ]_vars

\* C24 (SpecNode), amended. As claimed, but on Forward(next) the node publishes
\* next on its NomMix overlay first, and publishes nothing else, and nothing on
\* the broadcast overlay, when next cannot be unwrapped with its own key.
\* (publish hands next to the node's own handler: a route on which the node
\* follows itself is dispatched further within the same call.)
C24_DispatchOwnNext ==
    [][Dispatched =>
              LET result == ProcessSphinxPacket(delivered'.msg)
              IN  CASE result.type = "SphinxPacket" ->
                         /\ NewPubs # << >>
                         /\ NewPubs[1] = [overlay |-> "nomssip", msg |-> result.value]
                         /\ ProcessSphinxPacket(result.value).type = "None"
                               => Len(NewPubs) = 1 /\ broadcast' = broadcast
                    [] result.type = "bytes" ->
                         NewPubs = <<[overlay |-> "broadcast",
                                      msg |-> RecoveredMsgHandler(result.value)]>>
                    [] OTHER ->
                         NewPubs = << >> /\ broadcast' = broadcast
      ]_vars

\* the node has relayed a packet to another node, whose next hop it could not
\* unwrap itself, and has broadcast the payload of another packet
C24_Witness ==
    /\ Len(pubLog) = 2
    /\ \E i \in 1..Len(pubLog) :
          /\ pubLog[i].overlay = "nomssip"
          /\ ProcessSphinxPacket(pubLog[i].msg).type = "None"
    /\ \E i \in 1..Len(pubLog) : pubLog[i].overlay = "broadcast"
    /\ delivered.n = 2
    /\ Len(nomssip.sent) = 3

\* C26 (SpecSession). Iteration failure isolation: when an iteration of a session
\* has raised a runtime error, run_session goes on collecting the other
\* iterations and still processes every other parameter set: collecting a
\* failed iteration does not end the session, and a parameter set whose
\* iterations have all returned is processed.
C26_FailureIsolation ==
    /\ session # "raised"
    /\ \A p \in ParamsetIds :
          (\A i \in Iterations :
              future[p][i] = "returned" /\ i \in paramset_results[p].iters)
              => p \in paramsets_done

\* the rows written for msg
RowsOf(msg) == {k \in DOMAIN rows : rows[k].msg = msg}

\* the latest time at which a handler was notified of msg
LastReceipt(msg) ==
    CHOOSE t \in {notified[msg][n] : n \in DOMAIN notified[msg]} :
        \A n \in DOMAIN notified[msg] : notified[msg][n] <= t

\* C27 (SpecSim). Dissemination-time record: at most one row is written per
\* message; a message has a row exactly when the result loop has taken
\* num_nodes notifications of it, and then every node's handler has been
\* notified of it; the row's dissemination time is the receipt time of the last
\* node minus the sent time the message carries. No row is written for a
\* message that fewer than all nodes have received.
C27_DisseminationRecord ==
    \A msg \in SimMsgs :
        /\ Cardinality(RowsOf(msg)) <= 1
        /\ RowsOf(msg) # {} <=> Counter(received_msg_counters, msg) >= NumNodes
        /\ \A k \in RowsOf(msg) :
              /\ DOMAIN notified[msg] = Nodes
              /\ rows[k].all_received_time = [ms |-> LastReceipt(msg), err |-> 0]
              /\ rows[k].dissemination_time =
                     Minus([ms |-> LastReceipt(msg), err |-> 0],
                           MessageFromBytes(msg).sent_time)
        /\ DOMAIN notified[msg] # Nodes => RowsOf(msg) = {}

\* C27 witness: a message sent after time 0 has its row, written when the last
\* node received it later than the others, while another message that not all
\* nodes have received has none
C27_Witness ==
    \E msg, other \in SimMsgs :
        /\ RowsOf(msg) # {}
        /\ MessageFromBytes(msg).sent_time.ms > 0
        /\ \E n \in Nodes : notified[msg][n] < LastReceipt(msg)
        /\ DOMAIN notified[other] # Nodes

\* the entries of the returned topology are the nodes 0 .. num_nodes - 1
TopoEntries == DOMAIN topo.topology = 0..(topo.num_nodes - 1)

\* q is a peer of p exactly when p is a peer of q, and no node is its own peer
TopoSymmetric ==
    \A p, q \in DOMAIN topo.topology :
        /\ q \in topo.topology[p] <=> p \in topo.topology[q]
        /\ p \notin topo.topology[p]

\* no part of the nodes is cut off from the rest
TopoConnected ==
    \A part \in SUBSET (DOMAIN topo.topology) :
        (part # {} /\ part # DOMAIN topo.topology) =>
            \E p \in part : topo.topology[p] \ part # {}

\* every node has between least and peering_degree peers, all of them nodes
TopoDegrees(least) ==
    \A p \in DOMAIN topo.topology :
        /\ topo.topology[p] \subseteq DOMAIN topo.topology
        /\ Cardinality(topo.topology[p]) >= least
        /\ Cardinality(topo.topology[p]) <= topo.peering_degree

\* C28 (SpecTopo), as stated. Topology postcondition: whenever
\* build_full_random_topology returns, the result has exactly num_nodes entries,
\* is symmetric, has no self-loop, gives every node between 1 and peering_degree
\* peers, and is connected.
C28_TopologyPostcondition ==
    topo.returned =>
        TopoEntries /\ TopoSymmetric /\ TopoDegrees(1) /\ TopoConnected

\* C28 (SpecTopo), amended. The same, where the lower bound of one peer holds
\* for num_nodes >= 2; for num_nodes = 1 the result is the single node with no
\* peer.
C28_TopologyPostconditionTwoNodes ==
    topo.returned =>
        /\ TopoEntries /\ TopoSymmetric /\ TopoConnected
        /\ TopoDegrees(IF topo.num_nodes >= 2 THEN 1 ELSE 0)

\* C28 witness: a topology of at least three nodes is returned after an
\* unconnected one was thrown away
C28_Witness ==
    /\ topo.returned
    /\ topo.rebuilt
    /\ topo.num_nodes >= 3
    /\ topo.peering_degree >= 2

\* the messages of a buffer that are not the noise
Reals(q) == SelectSeq(q, LAMBDA x : x # NoisePacket)

\* the emitter has had a turn in this step
MixTurn == wake' # wake

\* what the emitter has sent with the flag set: no noise, only messages passed
\* to send() and none more often than it was passed, at ticks of 1/R after the
\* construction, no two at the same tick
SentWhatWasPassed ==
    /\ \A k \in 1..Len(sentAt) :
          /\ sentAt[k].msg # NoisePacket
          /\ sentAt[k].msg \in RealPackets
          /\ Count(Data([j \in 1..Len(sentAt) |-> [data |-> sentAt[j].msg]]),
                   sentAt[k].msg) <= sends.n[sentAt[k].msg]
          /\ sentAt[k].t > created
          /\ (sentAt[k].t - created) % Period = 0
          /\ \A j \in 1..(k - 1) : sentAt[k].t - sentAt[j].t >= Period
    /\ NoisePacket \notin wire

\* a turn sends at most one message, and it sends none when the get took no
\* passed message out of the buffer (it yielded noise): the turn is used up and
\* a message passed after it waits for the next one
NoiseTurnSendsNothing ==
    MixTurn =>
        /\ Len(sentAt') <= Len(sentAt) + 1
        /\ Len(Reals(mixq'[1])) = Len(Reals(mixq[1]))
              => sentAt' = sentAt /\ wire' = wire /\ wake' = now + Period

\* C29 (SpecMix). skip_sending_noise: with the flag set, the emitter never sends
\* the noise on the underlying connection; every message it sends is one that
\* was passed to send(); it sends at most one message per tick of 1/R, and a tick
\* whose get yields noise is consumed without sending.
C29_SkipSendingNoise ==
    [][skip_sending_noise => SentWhatWasPassed' /\ NoiseTurnSendsNothing]_vars

\* C29 witness: with the flag set and a mixing queue, a message passed after
\* a turn that yielded noise and sent nothing was sent at a later tick, while
\* another still waits in the buffer
C29_Witness ==
    /\ skip_sending_noise
    /\ mix_type = "PURE_COIN_FLIPPING"
    /\ sends.first >= 1
    /\ Len(sentAt) >= 1
    /\ sentAt[1].t >= created + 2 * Period
    /\ Len(Reals(mixq[1])) >= 1

\* the disciplines that select one element of the buffer as it stands
SelectTypes == {"PURE_COIN_FLIPPING", "PURE_RANDOM_SAMPLING", "NOISY_COIN_FLIPPING"}

\* q with its i-th element left out and all others where they were
Without(q, i) == SubSeq(q, 1, i - 1) \o SubSeq(q, i + 1, Len(q))

\* the buffer a get selects from: padded at the back by PureRandomSamplingQueue
\* in the same step, and already padded when a scan is under way
Selectable ==
    IF mix_type = "PURE_RANDOM_SAMPLING" THEN Pad(mixq[1], NoisePacket) ELSE mixq[1]

\* a get returns in this step
GetReturns ==
    /\ puts' = puts
    /\ scan' = 0
    /\ scan >= 1 \/ mix_type = "PURE_RANDOM_SAMPLING"

\* what a step of a selecting discipline does to the buffer
SelectionStep ==
    mix_type \in SelectTypes =>
        /\ GetReturns =>
              IF mix_type = "NOISY_COIN_FLIPPING" /\ last'.msg = NoisePacket
              THEN mixq'[1] = mixq[1]
              ELSE \E i \in 1..Len(Selectable) :
                      /\ last'.msg = Selectable[i]
                      /\ mixq'[1] = Without(Selectable, i)
        /\ puts' # puts => mixq'[1] = Append(mixq[1], puts'[Len(puts')])

\* C30 (SpecQueue). Selection removes exactly one element and keeps the rest in
\* place: in PURE_COIN_FLIPPING, PURE_RANDOM_SAMPLING and NOISY_COIN_FLIPPING a
\* get that returns a buffered element leaves the buffer without that element
\* and with all others, padding noise included, in their order; a get of
\* NOISY_COIN_FLIPPING that returns the noise leaves the buffer as it is; and
\* every put appends at the back.
C30_SelectionKeepsOrder == [][SelectionStep]_vars

\* C30 witness: a coin-flipping get took the first message put out of a buffer
\* of three, between a padding noise in front of it and a later message behind
\* it, which both stayed
C30_Witness ==
    /\ mix_type = "PURE_COIN_FLIPPING"
    /\ scan = 0
    /\ Len(puts) = 2
    /\ last = [msg |-> puts[1], among |-> 3]
    /\ mixq[1] = <<NoisePacket, puts[2]>>

\* what a step of NoisyCoinFlippingQueue does: a get that returns in this step
\* returns the noise and leaves the buffer, or returns the front element and
\* leaves the rest; the messages returned so far, followed by those waiting,
\* are the messages put, in the order of the puts
NoisyStep ==
    mix_type = "NOISY_COIN_FLIPPING" =>
        /\ (puts' = puts /\ scan' = 0) =>
              \/ last'.msg = NoisePacket /\ mixq'[1] = mixq[1] /\ gots' = gots
              \/ /\ mixq[1] # << >>
                 /\ last'.msg = mixq[1][1]
                 /\ mixq'[1] = Tail(mixq[1])
                 /\ gots' = Append(gots, mixq[1][1])
        /\ gots' \o mixq'[1] = puts'

\* C31 (SpecQueue). NOISY_COIN_FLIPPING never reorders: every get returns either
\* the noise or the element at position 0 of the buffer, never an element
\* further back, so the messages leave the queue in the order they were put.
C31_NoisyNeverReorders == [][NoisyStep]_vars

\* C31 witness: two different messages were put and both have been returned, in
\* the order of the puts, the second from a buffer that held it alone
C31_Witness ==
    /\ mix_type = "NOISY_COIN_FLIPPING"
    /\ Len(puts) = MaxPuts
    /\ puts[1] # puts[2]
    /\ gots = puts
    /\ last.among = 1

\* how often the handlers of all overlays together were called with msg
RECURSIVE Deliveries(_, _)
Deliveries(msg, n) ==
    IF n = 0 THEN 0 ELSE Count(handled[n], msg) + Deliveries(msg, n - 1)

\* C32 (Spec). Handler at most once per node and message: the handler of an
\* overlay is called at most once for each message, also after the cache entry
\* of the message was removed; so the handlers of all overlays together are
\* called with one message at most num_nodes times.
C32_HandlerAtMostOnce ==
    \A msg \in Payloads :
        /\ \A n \in Nodes : Count(handled[n], msg) <= 1
        /\ Deliveries(msg, NumNodes) <= NumNodes

\* what a step does to a pipeline with the NONE discipline: a turn of the
\* emitter with a message waiting sends the message at the front, which is then
\* at the last of its ticks and not past its time; a turn with nothing waiting
\* sends the noise, or nothing when noise is skipped; and no message still
\* waiting is past its time or has fewer ticks left than messages ahead of it
NoneStep ==
    mix_type = "NONE" =>
        /\ MixTurn =>
              IF mixq[1] # << >>
              THEN /\ sentAt' = Append(sentAt, [t |-> now, msg |-> Head(mixq[1])])
                   /\ Head(mixq[1]) # NoisePacket
                   /\ due.wait[1].ticks = 1
                   /\ now <= due.wait[1].by
              ELSE sentAt' = IF skip_sending_noise THEN sentAt
                             ELSE Append(sentAt, [t |-> now, msg |-> NoisePacket])
        /\ Len(due'.wait) = Len(mixq'[1])
        /\ \A j \in 1..Len(due'.wait) :
              due'.wait[j].ticks = j /\ now' <= due'.wait[j].by

\* C33 (SpecMix). Bounded release with the NONE discipline: a message put while
\* k messages wait is sent at the (k+1)-th turn of the emitter after the put,
\* within (k+1) periods of the put; noise is sent only at turns where no message
\* waits.
C33_BoundedRelease == [][NoneStep]_vars

\* C33 witness: a message put while another was waiting has been sent, after
\* it, and noise has been sent too
C33_Witness ==
    /\ mix_type = "NONE"
    /\ ~skip_sending_noise
    /\ due.last.k = 1
    /\ \E j \in 1..Len(sentAt) : sentAt[j].msg = NoisePacket

\* the times of every iteration of p, once each, and of no other parameter set
OwnTimes(p) ==
    [t \in ParamsetIds \X Iterations |-> IF t[1] = p THEN 1 ELSE 0]

\* C34 (SpecSession). Session aggregation is order-independent: in whatever
\* order the iterations complete, a parameter set from from_paramset on is
\* processed at most once, only when all its iterations have completed, and with
\* the times of all its iterations and of no other parameter set; when the
\* session ends every one of them has been processed; a parameter set before
\* from_paramset is never submitted or processed.
C34_OrderIndependent ==
    \A p \in ParamsetIds :
        /\ paramset_processed[p].n <= 1
        /\ paramset_processed[p].n = 1 =>
              /\ p >= from_paramset
              /\ \A i \in Iterations : future[p][i] = "returned"
              /\ paramset_processed[p].times = OwnTimes(p)
        /\ (session = "finished" /\ p >= from_paramset) => paramset_processed[p].n = 1
        /\ p < from_paramset =>
              /\ \A i \in Iterations : future[p][i] = "none"
              /\ paramset_processed[p].n = 0 /\ p \notin paramsets_done
        /\ p \in paramsets_done <=> paramset_processed[p].n = 1

\* C34 witness: the session has ended with the first parameter set left out and
\* the last parameter set processed
C34_Witness ==
    /\ session = "finished"
    /\ from_paramset = 2
    /\ paramset_processed[NumParamsets].n = 1

\* Simulation.run has left its scope with every result collected and every
\* activity it started cancelled
RunExited ==
    /\ scope.pc = "exited"
    /\ result_cnt = RunSentMsgs * NumSenders
    /\ Len(rows) = RunSentMsgs * NumSenders
    /\ scope.children = WiringTasks(conns) \cup {SenderTask(n) : n \in DOMAIN senders}
    /\ scope.cancelled = scope.children

\* C35: on a connected topology Simulation.run eventually collects
\* num_sent_msgs x num_senders results, leaves the result loop, stop_tasks cancels
\* every activity started through Framework.spawn, and the scope exits
C35_RunTerminates == <>RunExited

C35_Witness ==
    /\ RunExited
    /\ mix_type = "NOISY_COIN_FLIPPING"
    /\ \A n \in Nodes : Len(conns[n]) = 2

\* C36: for every num_nodes >= 1 and peering_degree >= 1,
\* build_full_random_topology returns in the end, under fair random sampling
C36_TopologyTerminates ==
    (topo.num_nodes >= 1 /\ topo.peering_degree >= 1) ~> topo.returned

\* the same for the calls for which some topology within peering_degree is
\* connected: at most two nodes, or a peering_degree of two or more
TopologyTerminatesDegreeTwo ==
    (topo.num_nodes >= 1 /\ topo.peering_degree >= 1
       /\ (topo.num_nodes <= 2 \/ topo.peering_degree >= 2)) ~> topo.returned

\* the loop of __connect_nodes has visited every entry of the topology
WireDone ==
    /\ topo.returned
    /\ \A p \in DOMAIN topo.topology : \A q \in topo.topology[p] : <<p, q>> \in topo.visited

\* C37: when the nodes of a returned topology are connected by the rule that the
\* node with the smaller index establishes the connection, no connect call raises
\* PeeringDegreeReached, no pair is connected twice, and once the loop is through
\* every edge has been connected exactly once, by its smaller node, and every
\* node has as many connections as it has peers in the topology
C37_WiringNeverOverflows ==
    topo.returned =>
        /\ ~topo.raised
        /\ \A pair \in DOMAIN topo.connected :
              /\ topo.connected[pair] = 1
              /\ pair[1] < pair[2]
              /\ pair[2] \in topo.topology[pair[1]]
        /\ \A n \in DOMAIN topo.topology :
              topo.conns[n] <= Cardinality(topo.topology[n])
        /\ WireDone =>
              /\ \A p \in DOMAIN topo.topology : \A q \in topo.topology[p] :
                    Connects(topo.connected, <<p, q>>) + Connects(topo.connected, <<q, p>>) = 1
              /\ \A n \in DOMAIN topo.topology :
                    topo.conns[n] = Cardinality(topo.topology[n])

\* C37 witness: four nodes are wired to the end along a topology that gives each
\* of them peering_degree peers
C37_Witness ==
    /\ WireDone
    /\ topo.num_nodes = 4
    /\ topo.peering_degree = 2
    /\ \A n \in DOMAIN topo.topology : topo.conns[n] = topo.peering_degree

====
